---- MODULE Spec2Model ----
(***************************************************************************)
(* Misner Splunk Tool: the Splunkd wrapper object (misnersplunkdwrapper.py) *)
(* with its population steps, the primary-role guess and report_builder,    *)
(* driven in the order in which misnersplunktool.py polls an instance.      *)
(*                                                                          *)
(* Conventions of the model                                                 *)
(*  - a Python string that the code takes apart is a sequence of tokens     *)
(*    whose concatenation is the string: a version '7.2.1' is its           *)
(*    dot-separated parts <<"7","2","1">>, a report value                   *)
(*    "'/' 45% of 10.00 GB, '/opt' 91% of 5.00 GB" is one token per entry   *)
(*    with the separator ", " as a token of its own, '' is <<>>;            *)
(*  - Python's None is the string "None" where a field holds a boolean or   *)
(*    None; an attribute that was never assigned is Unset;                  *)
(*  - floats with a fixed number of decimals are scaled integers: a version *)
(*    number major.minor is in hundredths, a disk usage in tenths of a      *)
(*    percent;                                                              *)
(*  - an exception that leaves a method is recorded in raised.              *)
(***************************************************************************)
EXTENDS Integers, Sequences, FiniteSets, TLC

VARIABLES
    splunkd,       \* the fields of the Splunkd object, self.report included
    healthchecks,  \* MainWindow.healthchecks, handed to report_builder
    main,          \* the main window: whether self.splunkd exists, its widgets and
                   \* the GUI thread inside connect
    pc,            \* the next step of the poll sequence; "done" after the report,
                   \* "aborted" when a step raised and the sequence ended there,
                   \* "poll" at the connection check of MainWindow.poll, "idle"
                   \* when there is no connection
    raised,        \* the exception that left the last method called, or NoException
    saved,         \* the lines of the file written by File > Save Report, <<>> before
    instances,     \* DiscoveryReportWindow.instances: the instances of the CSV file
    worker,        \* the DiscoveryReportWorker thread: its position in poll and what
                   \* it has emitted through its signals
    stop_execution,\* DiscoveryReportWorker.stop_execution
    mutex,         \* the holder of DiscoveryReportWorker.mutex, or "free"
    ui,            \* the GUI thread inside the Discovery Report window's handlers
    unguarded,     \* the threads that read or wrote stop_execution without the mutex
    splunkd_polls, \* DiscoveryReportWindow.splunkd_polls as buttonTopology_clicked
                   \* reads it: the polled instances in the order of the map
    drawing,       \* what buttonTopology_clicked last showed: the figure or a message
    layer          \* one call of layer_positions: its arguments and what it returned

discovery == <<instances, worker, stop_execution, mutex, ui, unguarded>>

topo == <<splunkd_polls, drawing, layer>>

vars == <<splunkd, healthchecks, main, pc, raised, saved, discovery, topo>>

\* what the methods of Splunkd leave alone
others == <<healthchecks, main, saved, discovery, topo>>

NoException == "none"
Unset == "(unset)"
None == "None"
PyTrue == "True"
PyFalse == "False"
PyBool(b) == IF b THEN PyTrue ELSE PyFalse

(***************************************************************************)
(* Role Classifier: the if/elif chain of poll_service_info.                 *)
(***************************************************************************)
RoleTags ==
    { "universal_forwarder", "management_console", "cluster_slave", "indexer",
      "shc_deployer", "shc_captain", "shc_member", "cluster_master",
      "search_head", "deployment_server", "heavyweight_forwarder",
      "license_master" }

Modes == { "normal", "dedicated forwarder", "(unknown)" }

PrimaryRoles ==
    { "Universal Forwarder", "Management Console", "Indexer (Cluster Slave)",
      "Indexer (Standalone)", "Deployer (SHC)", "Search Head (SHC Captain)",
      "Search Head (SHC Member)", "Cluster Master", "Search Head (Standalone)",
      "Deployment Server", "Heavy Forwarder", "License Master", "Forwarder" }

\* the rules of the classifier, in the order of the specification's list (4.1)
RuleOrder ==
    << "universal_forwarder", "management_console", "cluster_slave", "indexer",
       "shc_deployer", "shc_captain", "shc_member", "cluster_master",
       "search_head", "deployment_server", "heavyweight_forwarder",
       "license_master" >>

\* the chain with the cluster_master test moved in front of the indexer test
GuessClusterMasterFirst(roles, mode) ==
    IF "universal_forwarder" \in roles THEN "Universal Forwarder"
    ELSE IF "management_console" \in roles THEN "Management Console"
    ELSE IF "cluster_master" \in roles THEN "Cluster Master"
    ELSE IF "cluster_slave" \in roles THEN "Indexer (Cluster Slave)"
    ELSE IF "indexer" \in roles THEN "Indexer (Standalone)"
    ELSE IF "shc_deployer" \in roles THEN "Deployer (SHC)"
    ELSE IF "shc_captain" \in roles THEN "Search Head (SHC Captain)"
    ELSE IF "shc_member" \in roles THEN "Search Head (SHC Member)"
    ELSE IF "search_head" \in roles THEN "Search Head (Standalone)"
    ELSE IF "deployment_server" \in roles THEN "Deployment Server"
    ELSE IF "heavyweight_forwarder" \in roles THEN "Heavy Forwarder"
    ELSE IF "license_master" \in roles THEN "License Master"
    ELSE IF mode = "dedicated forwarder" THEN "Forwarder"
    ELSE "Heavy Forwarder"

GuessPrimaryRole(roles, mode) ==
    IF "universal_forwarder" \in roles THEN "Universal Forwarder"
    ELSE IF "management_console" \in roles THEN "Management Console"
    ELSE IF "cluster_slave" \in roles THEN "Indexer (Cluster Slave)"
    ELSE IF "indexer" \in roles THEN "Indexer (Standalone)"
    ELSE IF "shc_deployer" \in roles THEN "Deployer (SHC)"
    ELSE IF "shc_captain" \in roles THEN "Search Head (SHC Captain)"
    ELSE IF "shc_member" \in roles THEN "Search Head (SHC Member)"
    ELSE IF "cluster_master" \in roles THEN "Cluster Master"
    ELSE IF "search_head" \in roles THEN "Search Head (Standalone)"
    ELSE IF "deployment_server" \in roles THEN "Deployment Server"
    ELSE IF "heavyweight_forwarder" \in roles THEN "Heavy Forwarder"
    ELSE IF "license_master" \in roles THEN "License Master"
    ELSE IF mode = "dedicated forwarder" THEN "Forwarder"
    ELSE "Heavy Forwarder"

(***************************************************************************)
(* MainWindow.healthchecks: HEALTHCHECKS overlaid with the [healthchecks]   *)
(* section of the configuration file, so every key is present. A value is   *)
(* a number; Python's True and False are 1 and 0, a version threshold is in *)
(* hundredths (6.0 is 600).                                                 *)
(***************************************************************************)
HEALTHCHECKS ==
    [ version_caution |-> 600, version_warning |-> 500,
      uptime_caution |-> 604800, uptime_warning |-> 86400,
      cpu_cores_caution |-> 12, mem_capacity_caution |-> 31744,
      http_ssl_caution |-> 1, messages_caution |-> 1,
      cpu_usage_caution |-> 80, cpu_usage_warning |-> 90,
      mem_usage_caution |-> 80, mem_usage_warning |-> 90,
      swap_usage_caution |-> 80, swap_usage_warning |-> 90,
      diskpartition_usage_caution |-> 80, diskpartition_usage_warning |-> 90,
      cluster_maintenance_caution |-> 1, cluster_rollingrestart_caution |-> 1,
      cluster_alldatasearchable_warning |-> 1, cluster_searchfactor_caution |-> 1,
      cluster_replicationfactor_caution |-> 1,
      cluster_peersnotsearchable_warning |-> 1,
      cluster_searchheadsnotconnected_warning |-> 1,
      shcluster_rollingrestart_caution |-> 1, shcluster_serviceready_warning |-> 1,
      shcluster_minpeersjoined_warning |-> 1 ]

HealthcheckKeys == DOMAIN HEALTHCHECKS

\* fixtype() of the option values 'false' and '0': the check is switched off
Disabled == 0

\* the configuration file sets the options of keys to Disabled
DisableKeys(keys) ==
    [k \in HealthcheckKeys |-> IF k \in keys THEN Disabled ELSE HEALTHCHECKS[k]]

\* the configuration file sets the options given in overrides
Configure(overrides) ==
    [k \in HealthcheckKeys |->
        IF k \in DOMAIN overrides THEN overrides[k] ELSE HEALTHCHECKS[k]]

(***************************************************************************)
(* The Discovery Report window and its worker thread as they are            *)
(* constructed: no CSV file loaded, the thread not started, the flag set by *)
(* DiscoveryReportWorker.__init__ and again by cleanup.                      *)
(***************************************************************************)
WorkerCreated ==
    [ pc |-> "created",    \* the position of the thread in poll
      instances |-> <<>>,    \* self.instances, written by signalInstanceData_write
      i |-> 1,               \* the place in self.instances of the loop
      progress |-> <<>>,     \* the values emitted by signalUpdateProgress
      status |-> <<>>,       \* the last text of signalUpdateTable for each row
      splunkd_polls |-> {},  \* the keys of the local splunkd_polls
      complete |-> <<>>,     \* the key sets of the maps emitted by signalPollingComplete
      raised |-> NoException ]

\* the main window with no connection, as disconnect leaves it: self.splunkd does
\* not exist, the address and credential fields are enabled, tabWidgetMain and
\* buttonPoll are disabled. pc is "connect" while the GUI thread is inside connect
\* and "exited" once sys.excepthook has ended the application; error is the
\* connection error that connect or poll last met
MainDisconnected ==
    [ pc |-> "ready", session |-> FALSE, fields_enabled |-> TRUE,
      tabs_enabled |-> FALSE, poll_enabled |-> FALSE, error |-> NoException ]

\* the main window as connect leaves it after a poll that returned
MainConnected ==
    [ pc |-> "ready", session |-> TRUE, fields_enabled |-> FALSE,
      tabs_enabled |-> TRUE, poll_enabled |-> TRUE, error |-> NoException ]

\* the window after cleanup. stop_at remembers the instance that was in flight when
\* Stop wrote the flag; progress_handled and complete_handled count the events of
\* the thread that the slots of the window have handled; raised is the exception
\* that left a slot
UiIdle ==
    [ pc |-> "idle", toggle_enabled |-> TRUE, closed |-> FALSE, stop_at |-> 0,
      topology_enabled |-> FALSE, savereport_enabled |-> FALSE,
      progress_handled |-> 0, complete_handled |-> 0, raised |-> NoException ]

\* no figure and no message yet
NoDrawing ==
    [ pc |-> "none", message |-> "", exc |-> "none",
      Graph |-> [nodes |-> {}, colored |-> {}, edges |-> {}], nodes |-> <<>>,
      topology |-> <<>> ]

\* no call of layer_positions yet
NoLayer ==
    [ pc |-> "none", layernodes |-> <<>>, layerheight |-> 0, bufferwidth |-> 0,
      xalignment |-> "", static_width |-> 0, positions |-> <<>> ]

DiscoveryClosed ==
    /\ splunkd_polls = <<>>
    /\ drawing = NoDrawing
    /\ layer = NoLayer
    /\ instances = <<>>
    /\ worker = WorkerCreated
    /\ stop_execution = TRUE
    /\ mutex = "free"
    /\ ui = UiIdle
    /\ unguarded = {}

(***************************************************************************)
(* Splunkd.__init__: the attribute defaults. primary_role is assigned by    *)
(* poll_service_info only. ram is the integer 0 here and the string of the  *)
(* server's physicalMemoryMB after poll_service_info, hence the type tag.   *)
(***************************************************************************)
SplunkdDefaults ==
    [ mgmt_host |-> "splunk01", mgmt_port |-> "8089",
      server_name |-> "(unknown)", http_port |-> "0",
      http_ssl |-> None, http_server |-> None,
      version |-> <<"(unknown)">>, guid |-> "(unknown)",
      startup_time |-> 0, startup_time_formatted |-> "(unknown)",
      cores |-> 0, ram |-> [type |-> "int", text |-> "0"],
      roles |-> {"(unknown)"}, product |-> "(unknown)", mode |-> "(unknown)",
      primary_role |-> Unset, type |-> <<"(unknown)">>, os |-> "(unknown)",
      messages |-> <<>>,
      deployment_server |-> "(unknown)",
      cookedtcp_status |-> <<>>,
      apps |-> <<>>,
      receiving_ports |-> <<>>, rawtcp_ports |-> <<>>, udp_ports |-> <<>>,
      forward_servers |-> <<>>,
      kvstore_port |-> "0",
      cluster_master_uri |-> "(unknown)", cluster_mode |-> "(unknown)",
      cluster_site |-> "(unknown)", cluster_label |-> "(unknown)",
      cluster_replicationport |-> "0", cluster_replicationfactor |-> "0",
      cluster_searchfactor |-> "0",
      shcluster_deployer |-> "(unknown)",
      cluster_maintenance |-> None, cluster_rollingrestart |-> None,
      cluster_alldatasearchable |-> None, cluster_searchfactormet |-> None,
      cluster_replicationfactormet |-> None,
      cluster_peers |-> <<>>, cluster_peers_searchable |-> 0,
      cluster_searchheads |-> <<>>, cluster_searchheads_connected |-> 0,
      shcluster_label |-> "(unknown)", shcluster_replicationfactor |-> "0",
      shcluster_rollingrestart |-> None, shcluster_serviceready |-> None,
      shcluster_minpeersjoined |-> None,
      shcluster_members |-> <<>>,
      deployment_clients |-> <<>>,
      license_slaves |-> <<>>, license_master |-> "",
      distributedsearch_peers |-> <<>>,
      health_splunkd_overall |-> "", health_splunkd_features |-> <<>>,
      disk_partitions |-> <<>>,
      cpu_usage |-> 0, mem_usage |-> 0, swap_usage |-> 0,
      mem |-> Unset, mem_used |-> Unset, swap |-> Unset, swap_used |-> Unset,
      _services_server_status_resourceusage_hostwide |-> None,
      report |-> <<>> ]

(***************************************************************************)
(* poll_service_info(info): info is service.info, a record with the keys    *)
(* version, startup_time, numberOfCores, physicalMemoryMB, server_roles,    *)
(* product_type, mode; info.has is the set of the keys the server sent, a   *)
(* key outside it is read by nobody.                                        *)
(***************************************************************************)
TypeOf(roles, product, mode, version) ==
    <<IF "universal_forwarder" \in roles THEN "Splunk Universal Forwarder v"
      ELSE IF product = "enterprise" THEN "Splunk Enterprise v"
      ELSE IF product = "hunk" THEN "Splunk Hunk v"
      ELSE IF product = "lite" THEN "Splunk Lite v"
      ELSE IF product = "lite_free" THEN "Splunk Lite Free v"
      ELSE IF mode = "dedicated forwarder" THEN "Splunk Forwarder v"
      ELSE "Splunk v">> \o version

poll_service_info(info) ==
    LET startup == IF "startup_time" \in info.has THEN info.startup_time ELSE 0
        roles == IF "server_roles" \in info.has THEN info.server_roles ELSE {"(unknown)"}
        product == IF "product_type" \in info.has THEN info.product_type ELSE "(unknown)"
        mode == IF "mode" \in info.has THEN info.mode ELSE "(unknown)"
    IN  /\ pc = "poll_service_info"
        /\ splunkd' = [splunkd EXCEPT
              !.version = info.version,
              !.guid = "8D1F2C3A",
              !.startup_time = startup,
              !.startup_time_formatted =
                  IF startup # 0 THEN "started@" \o ToString(startup) ELSE "(unknown)",
              !.cores = IF "numberOfCores" \in info.has THEN info.numberOfCores ELSE 0,
              !.ram = IF "physicalMemoryMB" \in info.has
                      THEN [type |-> "str", text |-> info.physicalMemoryMB]
                      ELSE [type |-> "int", text |-> "0"],
              !.roles = roles,
              !.product = product,
              !.mode = mode,
              !.primary_role = GuessPrimaryRole(roles, mode),
              !.type = TypeOf(roles, product, mode, info.version),
              !.os = "Linux x86_64"]
        /\ pc' = "poll_service_settings"
        /\ raised' = NoException
        /\ UNCHANGED others

(***************************************************************************)
(* The other population steps, in the order of MainWindow.poll. Each takes  *)
(* the server's response; a response field has says which keys it holds.    *)
(***************************************************************************)
poll_service_settings(settings) ==
    /\ pc = "poll_service_settings"
    /\ splunkd' = [splunkd EXCEPT
          !.server_name = "splunk01",
          !.http_port = "8000",
          !.http_ssl = PyBool(settings.enableSplunkWebSSL = "1"),
          !.http_server = PyBool(settings.startwebserver = "1")]
    /\ pc' = "poll_service_messages"
    /\ raised' = NoException
    /\ UNCHANGED others

\* str.upper() on the severities the server sends
Upper(severity) ==
    CASE severity = "info" -> "INFO"
      [] severity = "warn" -> "WARN"
      [] severity = "error" -> "ERROR"
      [] OTHER -> severity

\* the loop over the entries: a KeyError on an entry ends it, the entries before stay
RECURSIVE MessagesUntilKeyError(_)
MessagesUntilKeyError(entries) ==
    IF entries = <<>> \/ ~Head(entries).complete THEN <<>>
    ELSE <<[severity |-> Upper(Head(entries).severity), title |-> Head(entries).title]>>
         \o MessagesUntilKeyError(Tail(entries))

poll_service_messages(entries) ==
    /\ pc = "poll_service_messages"
    /\ splunkd' = [splunkd EXCEPT !.messages = MessagesUntilKeyError(entries)]
    /\ pc' = "get_service_confs"
    /\ raised' = NoException
    /\ UNCHANGED others

\* confs.ds_disabled is '1' or '0'; confs.ds_targeturi is a string, '' when the
\* call failed or the answer is no plain text
get_service_confs(confs) ==
    /\ pc = "get_service_confs"
    /\ splunkd' = [splunkd EXCEPT
          !.deployment_server =
              IF confs.ds_disabled = "1" THEN "(disabled)"
              ELSE IF confs.ds_targeturi = "" THEN "(none)"
              ELSE confs.ds_targeturi]
    /\ pc' = "get_services_admin_inputstatus"
    /\ raised' = NoException
    /\ UNCHANGED others

\* status.cooked: the sources of the Cooked:tcp entry, <<>> when there is no entry
get_services_admin_inputstatus(status) ==
    /\ pc = "get_services_admin_inputstatus"
    /\ splunkd' = [splunkd EXCEPT !.cookedtcp_status = status.cooked]
    /\ pc' = "poll_service_apps"
    /\ raised' = NoException
    /\ UNCHANGED others

poll_service_apps(apps) ==
    /\ pc = "poll_service_apps"
    /\ splunkd' = [splunkd EXCEPT !.apps = apps]
    /\ pc' = "get_services_data"
    /\ raised' = NoException
    /\ UNCHANGED others

get_services_data(data) ==
    /\ pc = "get_services_data"
    /\ splunkd' = [splunkd EXCEPT
          !.receiving_ports = data.cooked,
          !.rawtcp_ports = data.raw,
          !.udp_ports = data.udp,
          !.forward_servers = data.servers]
    /\ pc' = "get_services_kvstore"
    /\ raised' = NoException
    /\ UNCHANGED others

\* kvstore.port is '' when the call or a key fails
get_services_kvstore(kvstore) ==
    /\ pc = "get_services_kvstore"
    /\ splunkd' = [splunkd EXCEPT
          !.kvstore_port = IF kvstore.port = "" THEN "0" ELSE kvstore.port]
    /\ pc' = "get_services_cluster"
    /\ raised' = NoException
    /\ UNCHANGED others


IsSearchable(peer) == peer.is_searchable = "1"
IsConnected(searchhead) == searchhead.status = "Connected"

CountSearchable(peers) ==
    Cardinality({i \in DOMAIN peers : IsSearchable(peers[i])})

CountConnected(searchheads) ==
    Cardinality({i \in DOMAIN searchheads : IsConnected(searchheads[i])})

(***************************************************************************)
(* get_services_cluster(cluster). cluster.config: has_config says whether   *)
(* /services/cluster/config answered; cluster.deployer is '' without a      *)
(* fetch URL; cluster.has_master_info is FALSE when /cluster/master/info    *)
(* gives a KeyError: the eight flags become False and the method returns.   *)
(* cluster.has_generation is FALSE when the generation answer lacks its     *)
(* keys: that KeyError is caught by nobody. has_peers and has_searchheads   *)
(* say whether those answers hold entries.                                  *)
(***************************************************************************)
get_services_cluster(cluster) ==
    LET s0 == IF cluster.has_config
              THEN [splunkd EXCEPT
                      !.cluster_mode = cluster.mode,
                      !.cluster_site = "site1",
                      !.cluster_label = "idxc1",
                      !.cluster_replicationport = "9887",
                      !.cluster_replicationfactor = "3",
                      !.cluster_searchfactor = "2",
                      !.cluster_master_uri =
                          IF cluster.mode = "master" THEN "(self)"
                          ELSE IF cluster.mode \in {"slave", "searchhead"}
                               THEN "cm01.corp:8089"
                          ELSE "(none)"]
              ELSE splunkd
        s1 == [s0 EXCEPT !.shcluster_deployer =
                  IF cluster.deployer = "" THEN "(none)" ELSE cluster.deployer]
        noinfo == [s1 EXCEPT
                  !.cluster_maintenance = PyFalse,
                  !.cluster_rollingrestart = PyFalse,
                  !.cluster_alldatasearchable = PyFalse,
                  !.cluster_searchfactormet = PyFalse,
                  !.cluster_replicationfactormet = PyFalse]
        s2 == [s1 EXCEPT
                  !.cluster_maintenance = PyBool(cluster.maintenance_mode = "1"),
                  !.cluster_rollingrestart = PyBool(cluster.rolling_restart_flag = "1")]
        s3 == [s2 EXCEPT
                  !.cluster_alldatasearchable = PyBool(cluster.pending_last_reason = None),
                  !.cluster_searchfactormet = PyBool(cluster.search_factor_met = "1"),
                  !.cluster_replicationfactormet =
                      PyBool(cluster.replication_factor_met = "1")]
        s4 == [s3 EXCEPT
                  !.cluster_peers = IF cluster.has_peers THEN cluster.peers ELSE <<>>,
                  !.cluster_peers_searchable =
                      IF cluster.has_peers THEN CountSearchable(cluster.peers) ELSE 0,
                  !.cluster_searchheads =
                      IF cluster.has_searchheads THEN cluster.searchheads ELSE <<>>,
                  !.cluster_searchheads_connected =
                      IF cluster.has_searchheads
                      THEN CountConnected(cluster.searchheads) ELSE 0]
    IN  /\ pc = "get_services_cluster"
        /\ UNCHANGED others
        /\ IF ~cluster.has_master_info
           THEN splunkd' = noinfo /\ raised' = NoException
                /\ pc' = "get_services_shcluster"
           ELSE IF ~cluster.has_generation
           THEN splunkd' = s2 /\ raised' = "KeyError" /\ pc' = "aborted"
           ELSE splunkd' = s4 /\ raised' = NoException
                /\ pc' = "get_services_shcluster"

\* shcluster.has_config, has_status, has_members: whether the three answers hold
\* their keys; every failure is swallowed
get_services_shcluster(shcluster) ==
    LET s0 == IF shcluster.has_config
              THEN [splunkd EXCEPT !.shcluster_label = "shc1",
                                   !.shcluster_replicationfactor = "3"]
              ELSE splunkd
        s1 == IF shcluster.has_status
              THEN [s0 EXCEPT
                      !.shcluster_rollingrestart =
                          PyBool(shcluster.rolling_restart_flag = "1"),
                      !.shcluster_serviceready =
                          PyBool(shcluster.service_ready_flag = "1"),
                      !.shcluster_minpeersjoined =
                          PyBool(shcluster.min_peers_joined_flag = "1")]
              ELSE [s0 EXCEPT
                      !.shcluster_rollingrestart = PyFalse,
                      !.shcluster_serviceready = PyFalse,
                      !.shcluster_minpeersjoined = PyFalse]
        s2 == IF shcluster.has_members
              THEN [s1 EXCEPT !.shcluster_members = shcluster.members]
              ELSE s1
    IN  /\ pc = "get_services_shcluster"
        /\ splunkd' = s2
        /\ pc' = "get_services_deployment"
        /\ raised' = NoException
        /\ UNCHANGED others

get_services_deployment(clients) ==
    /\ pc = "get_services_deployment"
    /\ splunkd' = [splunkd EXCEPT !.deployment_clients = clients]
    /\ pc' = "get_services_licenser"
    /\ raised' = NoException
    /\ UNCHANGED others

\* licenser.master_uri: 'self', a host:port, or '' when the call failed
get_services_licenser(licenser) ==
    /\ pc = "get_services_licenser"
    /\ splunkd' = [splunkd EXCEPT
          !.license_slaves = licenser.slaves,
          !.license_master =
              IF licenser.master_uri = "self" THEN "(self)" ELSE licenser.master_uri]
    /\ pc' = "get_services_search"
    /\ raised' = NoException
    /\ UNCHANGED others

get_services_search(peers) ==
    /\ pc = "get_services_search"
    /\ splunkd' = [splunkd EXCEPT !.distributedsearch_peers = peers]
    /\ pc' = "get_services_server_health_details"
    /\ raised' = NoException
    /\ UNCHANGED others

\* what get_services_server_health_details leaves in the wrapper s;
\* details.has_health is FALSE when the answer lacks its keys (older servers)
HealthDetails(s, details) ==
    [s EXCEPT
        !.health_splunkd_overall =
            IF details.has_health THEN details.health ELSE "unknown",
        !.health_splunkd_features =
            IF details.has_health THEN details.features ELSE <<>>]

get_services_server_health_details(details) ==
    /\ pc = "get_services_server_health_details"
    /\ splunkd' = HealthDetails(splunkd, details)
    /\ pc' = "get_services_server_status"
    /\ raised' = NoException
    /\ UNCHANGED others

(***************************************************************************)
(* get_services_server_status(status).                                      *)
(* status.partitions: the entries of partitions-space, each with free and   *)
(* capacity in MB and complete = FALSE when a key is missing (the KeyError  *)
(* ends the loop). 'used' is '%.1f%%' of (capacity - free) / capacity * 100,*)
(* kept here as tenths of a percent; a capacity of 0 divides by zero.       *)
(* status.hostwide: cpu_idle_pct in tenths of a percent, mem, mem_used,     *)
(* swap, swap_used in MB, and has, the keys the answer holds; the first     *)
(* missing key ends the block with a KeyError that is swallowed.            *)
(* int(float(a) / float(b) * 100) is floor(100 * a / b) for the totals the  *)
(* model draws (powers of two, where the float quotient is exact). mem,     *)
(* mem_used, swap and swap_used are attributes only once they are read.     *)
(***************************************************************************)
UsedTenths(free, capacity) == (2000 * (capacity - free) + capacity) \div (2 * capacity)

\* '%.2f GB' % (capacity / 1024)
TotalGB(capacity) ==
    LET hundredths == (200 * capacity + 1024) \div 2048
        frac == hundredths % 100
    IN  ToString(hundredths \div 100) \o "." \o
        (IF frac < 10 THEN "0" ELSE "") \o ToString(frac) \o " GB"

RECURSIVE MountsUntilError(_)
MountsUntilError(entries) ==
    IF entries = <<>> THEN [mounts |-> <<>>, exc |-> NoException]
    ELSE LET mount == Head(entries) IN
         IF ~mount.complete THEN [mounts |-> <<>>, exc |-> NoException]
         ELSE IF mount.capacity = 0 THEN [mounts |-> <<>>, exc |-> "ZeroDivisionError"]
         ELSE LET rest == MountsUntilError(Tail(entries)) IN
              [mounts |-> <<[name |-> mount.mount_point,
                             used |-> UsedTenths(mount.free, mount.capacity),
                             total |-> TotalGB(mount.capacity)]>> \o rest.mounts,
               exc |-> rest.exc]

HostwideKeys == <<"cpu_idle_pct", "mem", "mem_used", "swap", "swap_used">>

\* the number of leading keys of HostwideKeys that the answer holds
RECURSIVE KeysRead(_, _)
KeysRead(has, i) ==
    IF i > Len(HostwideKeys) \/ HostwideKeys[i] \notin has THEN i - 1
    ELSE KeysRead(has, i + 1)

get_services_server_status(status) ==
    LET disks == MountsUntilError(status.partitions)
        s0 == [splunkd EXCEPT !.disk_partitions = disks.mounts]
        hw == status.hostwide
        read == KeysRead(hw.has, 1)
        h0 == [s0 EXCEPT !._services_server_status_resourceusage_hostwide = hw]
        s1 == IF read >= 1
              THEN [h0 EXCEPT !.cpu_usage = 100 - (hw.cpu_idle_pct \div 10)]
              ELSE h0
        m1 == IF read >= 2 THEN [s1 EXCEPT !.mem = ToString(hw.mem)] ELSE s1
        m2 == IF read >= 3 THEN [m1 EXCEPT !.mem_used = ToString(hw.mem_used)] ELSE m1
        s2 == IF read >= 3 /\ hw.mem # 0
              THEN [m2 EXCEPT !.mem_usage = (hw.mem_used * 100) \div hw.mem]
              ELSE m2
        w1 == IF read >= 4 THEN [s2 EXCEPT !.swap = ToString(hw.swap)] ELSE s2
        w2 == IF read >= 5 THEN [w1 EXCEPT !.swap_used = ToString(hw.swap_used)] ELSE w1
        s3 == IF read >= 5 /\ hw.swap # 0
              THEN [w2 EXCEPT !.swap_usage = (hw.swap_used * 100) \div hw.swap]
              ELSE w2
    IN  /\ pc = "get_services_server_status"
        /\ UNCHANGED others
        /\ IF disks.exc # NoException
           THEN splunkd' = s0 /\ raised' = disks.exc /\ pc' = "aborted"
           ELSE IF read >= 3 /\ hw.mem = 0
           THEN splunkd' = m2 /\ raised' = "ZeroDivisionError" /\ pc' = "aborted"
           ELSE IF read >= 5 /\ hw.swap = 0
           THEN splunkd' = w2 /\ raised' = "ZeroDivisionError" /\ pc' = "aborted"
           ELSE splunkd' = s3 /\ raised' = NoException /\ pc' = "report_builder"

(***************************************************************************)
(* report_builder(healthchecks). The report is a sequence of rows; a row's  *)
(* value is the sequence of the tokens of its string.                       *)
(***************************************************************************)
Token(string) == IF string = "" THEN <<>> ELSE <<string>>

\* ', '.join(tokens)
RECURSIVE Join(_)
Join(tokens) ==
    IF tokens = <<>> THEN <<>>
    ELSE IF Len(tokens) = 1 THEN tokens
    ELSE <<Head(tokens), ", ">> \o Join(Tail(tokens))

\* the health is stored as it is passed
report_appendKeepsNA(category, name, health, value) ==
    [ category |-> category,
      name |-> name,
      health |-> health,
      value |-> IF value = <<"(none)">> THEN <<>> ELSE value ]

report_append(category, name, health, value) ==
    [ category |-> category,
      name |-> name,
      health |-> IF health = "N/A" THEN "" ELSE health,
      value |-> IF value = <<"(none)">> THEN <<>> ELSE value ]

\* what a block of report_builder adds to the report, and the exception it ends with
Rows(rows) == [rows |-> rows, exc |-> NoException]
Raise(rows, exc) == [rows |-> rows, exc |-> exc]

Enabled(hc, key) == hc[key] # 0

\* the tags in the order of the server's list
ServerRoleOrder ==
    << "cluster_master", "cluster_slave", "deployment_server", "heavyweight_forwarder",
       "indexer", "kv_store", "license_master", "management_console", "search_head",
       "shc_captain", "shc_deployer", "shc_member", "universal_forwarder", "(unknown)" >>

RoleList(roles) ==
    SelectSeq(ServerRoleOrder, LAMBDA tag : tag \in roles)

ServerRows(s) ==
    LET first ==
          << report_append("Server", "Address", "N/A", <<s.mgmt_host \o ":" \o s.mgmt_port>>),
             report_append("Server", "Server Name", "N/A", Token(s.server_name)),
             report_append("Server", "GUID", "N/A", Token(s.guid)),
             report_append("Server", "Type", "N/A", s.type),
             report_append("Server", "Roles", "N/A", Join(RoleList(s.roles))) >>
    IN  IF s.primary_role = Unset THEN Raise(first, "AttributeError")
        ELSE Rows(first \o
          << report_append("Server", "Primary Role Guess", "N/A", Token(s.primary_role)),
             report_append("Server", "OS", "N/A", Token(s.os)),
             report_append("Server", "Web Enabled", "N/A", Token(s.http_server)) >>)

(***************************************************************************)
(* float(version.split('.')[0] + '.' + version.split('.')[1]), in           *)
(* hundredths. A part is a decimal numeral of one or two digits, or the     *)
(* empty string, or something float() rejects.                              *)
(***************************************************************************)
Numerals ==
    [ p \in {"0", "1", "2", "3", "4", "5", "6", "7", "8", "9", "10", "11", "12"} |->
        CASE p = "0" -> 0 [] p = "1" -> 1 [] p = "2" -> 2 [] p = "3" -> 3
          [] p = "4" -> 4 [] p = "5" -> 5 [] p = "6" -> 6 [] p = "7" -> 7
          [] p = "8" -> 8 [] p = "9" -> 9 [] p = "10" -> 10 [] p = "11" -> 11
          [] p = "12" -> 12 ]

IsNumeral(part) == part \in DOMAIN Numerals

\* the digits after the point: '1' is a tenth, '10' is ten hundredths
Fraction(part) ==
    IF part = "" THEN 0
    ELSE IF Numerals[part] < 10 THEN 10 * Numerals[part]
    ELSE Numerals[part]

FloatParses(major, minor) ==
    /\ major = "" \/ IsNumeral(major)
    /\ minor = "" \/ IsNumeral(minor)
    /\ ~(major = "" /\ minor = "")

minor_version(version) ==
    (IF version[1] = "" THEN 0 ELSE 100 * Numerals[version[1]]) + Fraction(version[2])

\* the version string back from its parts
RECURSIVE Dotted(_)
Dotted(parts) ==
    IF Len(parts) <= 1 THEN parts
    ELSE <<Head(parts), ".">> \o Dotted(Tail(parts))

\* the caution threshold is compared first
VersionRowsCautionFirst(s, hc) ==
    IF ~(Enabled(hc, "version_warning") \/ Enabled(hc, "version_caution")) THEN Rows(<<>>)
    ELSE IF s.version = <<"">>
    THEN Rows(<<report_append("Server", "Version", "Unknown", <<"?">>)>>)
    ELSE IF Len(s.version) < 2 THEN Raise(<<>>, "IndexError")
    ELSE IF ~FloatParses(s.version[1], s.version[2]) THEN Raise(<<>>, "ValueError")
    ELSE LET health == IF minor_version(s.version) <= hc.version_caution THEN "Caution"
                       ELSE IF minor_version(s.version) <= hc.version_warning THEN "Warning"
                       ELSE "OK"
         IN  Rows(<<report_append("Server", "Version", health, Dotted(s.version))>>)

VersionRows(s, hc) ==
    IF ~(Enabled(hc, "version_warning") \/ Enabled(hc, "version_caution")) THEN Rows(<<>>)
    ELSE IF s.version = <<"">>
    THEN Rows(<<report_append("Server", "Version", "Unknown", <<"?">>)>>)
    ELSE IF Len(s.version) < 2 THEN Raise(<<>>, "IndexError")
    ELSE IF ~FloatParses(s.version[1], s.version[2]) THEN Raise(<<>>, "ValueError")
    ELSE LET health == IF minor_version(s.version) <= hc.version_warning THEN "Warning"
                       ELSE IF minor_version(s.version) <= hc.version_caution THEN "Caution"
                       ELSE "OK"
         IN  Rows(<<report_append("Server", "Version", health, Dotted(s.version))>>)

UptimeRows(s, hc, now) ==
    IF ~(Enabled(hc, "uptime_warning") \/ Enabled(hc, "uptime_caution")) THEN Rows(<<>>)
    ELSE IF s.startup_time # 0
    THEN LET uptime_seconds == now - s.startup_time
             health == IF uptime_seconds < hc.uptime_warning THEN "Warning"
                       ELSE IF uptime_seconds < hc.uptime_caution THEN "Caution"
                       ELSE "OK"
         IN  Rows(<<report_append("Server", "Uptime", health,
                                  Token(s.startup_time_formatted))>>)
    ELSE Rows(<<report_append("Server", "Uptime", "Unknown", <<"?">>)>>)

\* Python's truth value of a field that holds True, False or None
Truthy(flag) == flag = PyTrue

HttpSslRows(s, hc) ==
    IF ~Enabled(hc, "http_ssl_caution") THEN Rows(<<>>)
    ELSE IF ~Truthy(s.http_ssl)
    THEN IF Enabled(hc, "http_ssl_caution")
         THEN Rows(<<report_append("Server", "HTTP SSL", "Caution", <<"False">>)>>)
         ELSE Rows(<<report_append("Server", "HTTP SSL", "OK", <<"True">>)>>)
    ELSE Rows(<<report_append("Server", "HTTP SSL", "Unknown", <<"?">>)>>)

\* str(message['severity']).lower != 'info' compares the bound method str.lower,
\* which is not called, with a string: the two are never equal
LowerIsNotInfo(severity) == TRUE

MessagesRows(s, hc) ==
    IF ~Enabled(hc, "messages_caution") THEN Rows(<<>>)
    ELSE IF s.messages # <<>>
    THEN LET flagged == SelectSeq(s.messages, LAMBDA m : LowerIsNotInfo(m.severity))
             titles == [i \in DOMAIN flagged |-> flagged[i].title]
         IN  Rows(<<report_append("Server", "Messages",
                                  IF flagged # <<>> THEN "Caution" ELSE "OK",
                                  IF titles # <<>> THEN Join(titles) ELSE <<"None">>)>>)
    ELSE Rows(<<report_append("Server", "Messages", "OK", <<"None">>)>>)

SplunkdHealthRows(s) ==
    (IF s.health_splunkd_overall = "" THEN <<>>
     ELSE IF s.health_splunkd_overall = "green"
     THEN <<report_append("Server", "Splunkd Health", "OK", <<"Green">>)>>
     ELSE IF s.health_splunkd_overall = "yellow"
     THEN <<report_append("Server", "Splunkd Health", "Caution", <<"Yellow">>)>>
     ELSE IF s.health_splunkd_overall = "red"
     THEN <<report_append("Server", "Splunkd Health", "Warning", <<"Red">>)>>
     ELSE <<report_append("Server", "Splunkd Health", "Unknown",
                          Token(s.health_splunkd_overall))>>)
    \o
    (IF s.health_splunkd_features = <<>> THEN <<>>
     ELSE <<report_append("Server", "Splunkd Health (by feature)", "N/A",
                          Join(s.health_splunkd_features))>>)

\* self.ram < threshold: ram is a str once polled, and Python 2 orders every
\* number before every str, so the comparison is False
RamBelow(ram, threshold) == IF ram.type = "str" THEN FALSE ELSE 0 < threshold

RamTruthy(ram) == IF ram.type = "int" THEN ram.text # "0" ELSE ram.text # ""

CapacityRows(s, hc) ==
    (IF ~Enabled(hc, "cpu_cores_caution") THEN <<>>
     ELSE IF s.cores # 0
     THEN <<report_append("Resources", "CPU Cores",
                          IF s.cores < hc.cpu_cores_caution THEN "Caution" ELSE "OK",
                          <<ToString(s.cores)>>)>>
     ELSE <<report_append("Resources", "CPU Cores", "Unknown", <<"?">>)>>)
    \o
    (IF ~Enabled(hc, "mem_capacity_caution") THEN <<>>
     ELSE IF RamTruthy(s.ram)
     THEN <<report_append("Resources", "RAM Size",
                          IF RamBelow(s.ram, hc.mem_capacity_caution) THEN "Caution"
                          ELSE "OK",
                          <<s.ram.text \o " MB">>)>>
     ELSE <<report_append("Resources", "RAM Size", "Unknown", <<"?">>)>>)

\* the CPU, RAM and swap usage blocks are the same code on three fields
UsageHealth(usage, warning, caution) ==
    IF usage >= warning THEN "Warning"
    ELSE IF usage >= caution THEN "Caution"
    ELSE "OK"

\* the row is appended whether or not a threshold is set
UsageRowsUngated(name, usage, warning, caution) ==
    <<report_append("Resources", name,
                    IF warning # 0 \/ caution # 0
                    THEN UsageHealth(usage, warning, caution) ELSE "N/A",
                    <<ToString(usage) \o "%">>)>>

UsageRows(name, usage, warning, caution) ==
    IF ~(warning # 0 \/ caution # 0) THEN <<>>
    ELSE IF usage # 0
    THEN <<report_append("Resources", name, UsageHealth(usage, warning, caution),
                         <<ToString(usage) \o "%">>)>>
    ELSE <<report_append("Resources", name, "Unknown", <<"?">>)>>

\* the health of the mount at hand replaces the health so far
MountHealthOfLast(health, used, warning, caution) ==
    IF used >= 10 * warning THEN "Warning"
    ELSE IF used >= 10 * caution THEN "Caution"
    ELSE "OK"

\* one pass of the loop over the mounts: health so far -> health after
MountHealth(health, used, warning, caution) ==
    IF used >= 10 * warning /\ health \in {"OK", "Caution"} THEN "Warning"
    ELSE IF used >= 10 * caution /\ health = "OK" THEN "Caution"
    ELSE health

RECURSIVE DiskHealth(_, _, _, _)
DiskHealth(mounts, health, warning, caution) ==
    IF mounts = <<>> THEN health
    ELSE DiskHealth(Tail(mounts),
                    MountHealth(health, Head(mounts).used, warning, caution),
                    warning, caution)

\* "'%s' %i%% of %s" % (name, percent_used, total)
MountEntry(mount) ==
    "'" \o mount.name \o "' " \o ToString(mount.used \div 10) \o "% of " \o mount.total

DiskRows(s, hc) ==
    IF ~(Enabled(hc, "diskpartition_usage_warning")
         \/ Enabled(hc, "diskpartition_usage_caution")) THEN <<>>
    ELSE IF s.disk_partitions # <<>>
    THEN <<report_append("Resources", "Disk Usage",
                         DiskHealth(s.disk_partitions, "OK",
                                    hc.diskpartition_usage_warning,
                                    hc.diskpartition_usage_caution),
                         Join([i \in DOMAIN s.disk_partitions |->
                                  MountEntry(s.disk_partitions[i])]))>>
    ELSE <<report_append("Resources", "Disk Usage", "Unknown", <<"?">>)>>

ResourceRows(s, hc) ==
    Rows(CapacityRows(s, hc)
         \o UsageRows("CPU Usage", s.cpu_usage,
                      hc.cpu_usage_warning, hc.cpu_usage_caution)
         \o UsageRows("RAM Usage", s.mem_usage,
                      hc.mem_usage_warning, hc.mem_usage_caution)
         \o UsageRows("Swap Usage", s.swap_usage,
                      hc.swap_usage_warning, hc.swap_usage_caution)
         \o DiskRows(s, hc))

Field(seq, name) == [i \in DOMAIN seq |-> seq[i][name]]

PortsAndAdjacencyRows(s) ==
    Rows(<< report_append("Ports", "Management Port", "N/A", Token(s.mgmt_port)),
            report_append("Ports", "Web Port", "N/A", Token(s.http_port)),
            report_append("Ports", "Receiving Ports", "N/A", Join(s.receiving_ports)),
            report_append("Ports", "TCP Input Ports", "N/A", Join(s.rawtcp_ports)),
            report_append("Ports", "UDP Input Ports", "N/A", Join(s.udp_ports)),
            report_append("Ports", "Replication Port", "N/A",
                          Token(s.cluster_replicationport)),
            report_append("Ports", "KV Store Port", "N/A", Token(s.kvstore_port)),
            report_append("Adjacencies", "Deployment Server", "N/A",
                          Token(s.deployment_server)),
            report_append("Adjacencies", "Deployment Clients", "N/A",
                          Join(s.deployment_clients)),
            report_append("Adjacencies", "IDXC Master Node", "N/A",
                          Token(s.cluster_master_uri)),
            report_append("Adjacencies", "IDXC Peer Nodes", "N/A",
                          Join(Field(s.cluster_peers, "location"))),
            report_append("Adjacencies", "IDXC Search Heads", "N/A",
                          Join(Field(s.cluster_searchheads, "location"))),
            report_append("Adjacencies", "SHC Deployer", "N/A",
                          Token(s.shcluster_deployer)),
            report_append("Adjacencies", "SHC Members", "N/A", Join(s.shcluster_members)),
            report_append("Adjacencies", "Search Peers", "N/A",
                          Join(s.distributedsearch_peers)),
            report_append("Adjacencies", "Receivers (Forward Servers)", "N/A",
                          Join(s.forward_servers)),
            report_append("Adjacencies", "Forwarders (Cooked TCP Connections)", "N/A",
                          Join(s.cookedtcp_status)),
            report_append("Adjacencies", "License Master", "N/A",
                          Token(s.license_master)),
            report_append("Adjacencies", "License Slaves", "N/A",
                          Join(s.license_slaves)) >>)

\* a check that reports Caution or Warning when the flag is true
BadWhenTrue(name, flag, severity) ==
    IF Truthy(flag) THEN report_append("Cluster", name, severity, <<"True">>)
    ELSE report_append("Cluster", name, "OK", <<"False">>)

\* a check that reports Caution or Warning when the flag is not true
BadWhenNotTrue(name, flag, severity) ==
    IF ~Truthy(flag) THEN report_append("Cluster", name, severity, <<"False">>)
    ELSE report_append("Cluster", name, "OK", <<"True">>)

When(condition, rows) == IF condition THEN rows ELSE <<>>

CountedRow(name, count, list) ==
    report_append("Cluster", name,
                  IF count < Len(list) THEN "Warning" ELSE "OK",
                  <<ToString(count) \o " of " \o ToString(Len(list))>>)

\* the label row is appended before the role is looked at
IndexerClusterRowsUngated(s, hc) ==
    Rows(<<report_append("Cluster", "IDXC Label", "N/A", Token(s.cluster_label))>>)

IndexerClusterRows(s, hc) ==
    IF "cluster_master" \notin s.roles THEN Rows(<<>>)
    ELSE Rows(
      << report_append("Cluster", "IDXC Label", "N/A", Token(s.cluster_label)),
         report_append("Cluster", "IDXC Mode", "N/A", Token(s.cluster_mode)),
         report_append("Cluster", "IDXC Site", "N/A", Token(s.cluster_site)) >>
      \o When(Enabled(hc, "cluster_maintenance_caution"),
              <<BadWhenTrue("IDXC Maintenance Mode", s.cluster_maintenance, "Caution")>>)
      \o When(Enabled(hc, "cluster_rollingrestart_caution"),
              <<BadWhenTrue("IDXC Rolling Restart", s.cluster_rollingrestart, "Caution")>>)
      \o When(Enabled(hc, "cluster_alldatasearchable_warning"),
              <<BadWhenNotTrue("IDXC All Data Searchable", s.cluster_alldatasearchable,
                               "Warning")>>)
      \o <<report_append("Cluster", "IDXC Search Factor", "N/A",
                         Token(s.cluster_searchfactor))>>
      \o When(Enabled(hc, "cluster_searchfactor_caution"),
              <<BadWhenNotTrue("IDXC Search Factor Met", s.cluster_searchfactormet,
                               "Caution")>>)
      \o <<report_append("Cluster", "IDXC Rep Factor", "N/A",
                         Token(s.cluster_replicationfactor))>>
      \o When(Enabled(hc, "cluster_replicationfactor_caution"),
              <<BadWhenNotTrue("IDXC Rep Factor Met", s.cluster_replicationfactormet,
                               "Caution")>>)
      \o When(Enabled(hc, "cluster_peersnotsearchable_warning") /\ s.cluster_peers # <<>>,
              <<CountedRow("IDXC Searchable Peers", s.cluster_peers_searchable,
                           s.cluster_peers)>>)
      \o When(Enabled(hc, "cluster_searchheadsnotconnected_warning")
              /\ s.cluster_searchheads # <<>>,
              <<CountedRow("IDXC Connected Search Heads", s.cluster_searchheads_connected,
                           s.cluster_searchheads)>>))

SearchHeadClusterRows(s, hc) ==
    IF "shc_member" \notin s.roles THEN Rows(<<>>)
    ELSE Rows(
      << report_append("Cluster", "SHC Label", "N/A", Token(s.shcluster_label)),
         report_append("Cluster", "SHC Rep Factor", "N/A",
                       Token(s.shcluster_replicationfactor)) >>
      \o When(Enabled(hc, "shcluster_rollingrestart_caution"),
              <<BadWhenTrue("SHC Rolling Restart", s.shcluster_rollingrestart, "Caution")>>)
      \o When(Enabled(hc, "shcluster_serviceready_warning"),
              <<BadWhenNotTrue("SHC Service Ready", s.shcluster_serviceready, "Warning")>>)
      \o When(Enabled(hc, "shcluster_minpeersjoined_warning"),
              <<BadWhenNotTrue("SHC Minimum Peers Joined", s.shcluster_minpeersjoined,
                               "Warning")>>))

CountRows(s) ==
    Rows(<< report_append("Counts", "Messages", "N/A", <<ToString(Len(s.messages))>>),
            report_append("Counts", "Apps", "N/A", <<ToString(Len(s.apps))>>),
            report_append("Counts", "Forwarders", "N/A",
                          <<ToString(Len(s.cookedtcp_status))>>) >>)

\* the blocks in the order of the code; the first exception ends the method with
\* the rows appended so far in self.report
RECURSIVE RunBlocks(_, _)
RunBlocks(blocks, report) ==
    IF blocks = <<>> THEN Rows(report)
    ELSE IF Head(blocks).exc # NoException
    THEN Raise(report \o Head(blocks).rows, Head(blocks).exc)
    ELSE RunBlocks(Tail(blocks), report \o Head(blocks).rows)

BuildReport(s, hc, now) ==
    RunBlocks(<< ServerRows(s), VersionRows(s, hc), UptimeRows(s, hc, now),
                 HttpSslRows(s, hc), MessagesRows(s, hc), Rows(SplunkdHealthRows(s)),
                 ResourceRows(s, hc), PortsAndAdjacencyRows(s),
                 IndexerClusterRows(s, hc), SearchHeadClusterRows(s, hc),
                 CountRows(s) >>, <<>>)

\* report_builder is a public method of the wrapper: the tool calls it at the end of
\* the poll sequence, another caller may call it earlier. now is int(time.time()).
report_builder(now) ==
    LET built == BuildReport(splunkd, healthchecks, now) IN
    /\ pc \notin {"done", "aborted"}
    /\ splunkd' = [splunkd EXCEPT !.report = built.rows]
    /\ raised' = built.exc
    /\ pc' = "done"
    /\ UNCHANGED others

(***************************************************************************)
(* MainWindow.actionSaveReport_triggered: File > Save Report. The report is *)
(* written as text, one line per element of saved. A row's value is         *)
(* written as str(value).replace(',', ';').                                 *)
(***************************************************************************)
\* the string whose tokens are value
RECURSIVE Text(_)
Text(value) == IF value = <<>> THEN "" ELSE Head(value) \o Text(Tail(value))

\* string.replace(',', ';')
RECURSIVE ReplaceCommas(_)
ReplaceCommas(string) ==
    IF Len(string) = 0 THEN ""
    ELSE (IF SubSeq(string, 1, 1) = "," THEN ";" ELSE SubSeq(string, 1, 1))
         \o ReplaceCommas(SubSeq(string, 2, Len(string)))

\* the value is written as it is
ReportLineKeepsCommas(entry) ==
    entry.category \o "," \o entry.name \o "," \o entry.health \o "," \o Text(entry.value)

\* "%s,%s,%s,%s\n" % (category, name, health, str(value).replace(',', ';'))
ReportLine(entry) ==
    entry.category \o "," \o entry.name \o "," \o entry.health \o ","
        \o ReplaceCommas(Text(entry.value))

ReportText(report) ==
    << "# Misner Splunk Tool v2020.02.01 by Joe Misner - http://tools.misner.net/",
       "# Instance Report produced 11/03/2026 07:41:42 PM",
       "Category,Name,Health,Value" >>
    \o [i \in DOMAIN report |-> ReportLine(report[i])]

\* the poll runs in the GUI thread and an exception that leaves it ends the
\* application, so the menu entry is reached with a report that was built;
\* chosen is FALSE when the file dialog is dismissed
actionSaveReport_triggered(chosen) ==
    /\ pc = "done"
    /\ raised = NoException
    /\ saved' = IF chosen THEN ReportText(splunkd.report) ELSE saved
    /\ UNCHANGED <<splunkd, healthchecks, main, pc, raised, discovery, topo>>

(***************************************************************************)
(* The Discovery Report. An instance of the CSV file is a record with its   *)
(* address and port and with what the server does to the worker: phase is   *)
(* the part of the loop body in which an exception is raised ("connect" for *)
(* Splunkd(...), "poll" for the population steps, "report" for              *)
(* report_builder, "none" for an instance that answers everything) and exc  *)
(* the exception.                                                           *)
(***************************************************************************)
Key(instance) == instance.address \o ":" \o instance.port

\* self.instances.index(instance): the first place of an equal element
FirstIndex(list, instance) ==
    CHOOSE k \in DOMAIN list :
        /\ list[k] = instance
        /\ \A j \in DOMAIN list : list[j] = instance => k <= j

Running == worker.pc \in {"top", "connect", "poll", "report"}

SetStatus(w, row, text) == [w EXCEPT !.status[row] = text]

\* the flag is read or written by thread: noted when the thread does not hold the mutex
Access(thread) == IF mutex = thread THEN unguarded ELSE unguarded \cup {thread}

\* buttonToggle_clicked up to mutex.lock(): Stop when the thread runs, Start
\* otherwise; Start without instances shows a message and returns
buttonToggle_clicked ==
    /\ ui.pc = "idle"
    /\ ui.toggle_enabled
    /\ mutex = "free"
    /\ IF Running
       THEN /\ ui' = [ui EXCEPT !.pc = "stop_locked", !.toggle_enabled = FALSE]
            /\ mutex' = "ui"
       ELSE /\ worker.pc = "created"
            /\ IF instances = <<>>
               THEN UNCHANGED <<ui, mutex>>
               ELSE ui' = [ui EXCEPT !.pc = "start_locked"] /\ mutex' = "ui"
    /\ UNCHANGED <<instances, worker, stop_execution, unguarded>>
    /\ UNCHANGED <<splunkd, healthchecks, main, pc, raised, saved, topo>>

\* self.threadWorker.stop_execution = True / False
buttonToggle_write ==
    /\ ui.pc \in {"stop_locked", "start_locked"}
    /\ stop_execution' = (ui.pc = "stop_locked")
    /\ unguarded' = Access("ui")
    /\ ui' = [ui EXCEPT
          !.pc = IF ui.pc = "stop_locked" THEN "stop_written" ELSE "start_written",
          !.stop_at = IF ui.pc = "stop_locked" /\ worker.pc \in {"connect", "poll", "report"}
                      THEN worker.i ELSE @]
    /\ UNCHANGED <<instances, worker, mutex>>
    /\ UNCHANGED <<splunkd, healthchecks, main, pc, raised, saved, topo>>

\* mutex.unlock(), and for Start signalInstanceData.emit and threadWorker.start()
buttonToggle_unlock ==
    /\ ui.pc \in {"stop_written", "start_written"}
    /\ mutex' = "free"
    /\ ui' = [ui EXCEPT !.pc = "idle"]
    /\ worker' = IF ui.pc = "start_written"
                 THEN [worker EXCEPT !.pc = "top", !.instances = instances,
                                     !.status = [k \in DOMAIN instances |-> "Pending"]]
                 ELSE worker
    /\ UNCHANGED <<instances, stop_execution, unguarded>>
    /\ UNCHANGED <<splunkd, healthchecks, main, pc, raised, saved, topo>>

\* DiscoveryReportWindow.cleanup, from closeEvent at any time. self.instances is
\* None after cleanup and a list with entries while a run is on: <<>> is None
cleanup ==
    /\ ui.pc = "idle"
    /\ ~ui.closed
    /\ instances' = <<>>
    /\ stop_execution' = TRUE
    /\ unguarded' = Access("ui")
    /\ ui' = [ui EXCEPT !.closed = TRUE, !.toggle_enabled = TRUE,
                        !.topology_enabled = FALSE, !.savereport_enabled = FALSE,
                        !.stop_at = IF worker.pc \in {"connect", "poll", "report"}
                                       /\ ~stop_execution
                                    THEN worker.i ELSE @]
    /\ UNCHANGED <<worker, mutex>>
    /\ splunkd_polls' = <<>>
    /\ UNCHANGED <<splunkd, healthchecks, main, pc, raised, saved, drawing, layer>>

\* the top of the loop of DiscoveryReportWorker.poll: the end of the list emits
\* signalPollingComplete, a set flag emits progress 0 and returns, otherwise the
\* progress of the instance is emitted. The events are queued for the thread of
\* the window, whose slots handle them later.
poll_top ==
    /\ worker.pc = "top"
    /\ UNCHANGED ui
    /\ IF worker.i > Len(worker.instances)
       THEN /\ worker' = [worker EXCEPT !.pc = "finished",
                                        !.complete = Append(@, worker.splunkd_polls)]
            /\ UNCHANGED unguarded
       ELSE /\ unguarded' = Access("worker")
            /\ IF stop_execution
               THEN worker' = [worker EXCEPT !.pc = "cancelled",
                                             !.progress = Append(@, 0)]
               ELSE worker' = [worker EXCEPT
                       !.pc = "connect",
                       !.progress = Append(@, FirstIndex(worker.instances,
                                                         worker.instances[worker.i]))]
    /\ UNCHANGED <<instances, stop_execution, mutex>>
    /\ UNCHANGED <<splunkd, healthchecks, main, pc, raised, saved, topo>>

\* the row of the table that instance_status writes
StatusRow(w) == FirstIndex(w.instances, w.instances[w.i])

\* Splunkd(host, port, user, pass): every exception is caught
poll_connect ==
    LET instance == worker.instances[worker.i]
        failed(text) == [SetStatus(worker, StatusRow(worker), text) EXCEPT
                            !.pc = "top", !.i = @ + 1]
    IN  /\ worker.pc = "connect"
        /\ worker' =
             IF instance.phase # "connect"
             THEN [SetStatus(worker, StatusRow(worker), "Connected") EXCEPT !.pc = "poll"]
             ELSE IF instance.exc = "AuthenticationError"
             THEN failed("Failed: Authentication error")
             ELSE IF instance.exc = "gaierror"
             THEN failed("Failed: Unable to connect")
             ELSE IF instance.exc = "socket.error"
             THEN failed("Failed: Unable to connect (socket.error)")
             ELSE failed("Failed: Unable to connect (unknown exception)")
        /\ UNCHANGED <<instances, stop_execution, mutex, ui, unguarded>>
        /\ UNCHANGED <<splunkd, healthchecks, main, pc, raised, saved, topo>>

\* the population steps: socket.error is caught, any other exception leaves poll
\* and run, and the thread ends
poll_instance ==
    LET instance == worker.instances[worker.i] IN
    /\ worker.pc = "poll"
    /\ worker' =
         IF instance.phase # "poll"
         THEN [SetStatus(worker, StatusRow(worker), "Building instance report...")
                  EXCEPT !.pc = "report"]
         ELSE IF instance.exc = "socket.error"
         THEN [SetStatus(worker, StatusRow(worker),
                         "Failed: Socket error while attempting to poll splunkd")
                  EXCEPT !.pc = "top", !.i = @ + 1]
         ELSE [worker EXCEPT !.pc = "died", !.raised = instance.exc]
    /\ UNCHANGED <<instances, stop_execution, mutex, ui, unguarded>>
    /\ UNCHANGED <<splunkd, healthchecks, main, pc, raised, saved, topo>>

\* report_builder, every exception caught, and the success of the instance
poll_report ==
    LET instance == worker.instances[worker.i] IN
    /\ worker.pc = "report"
    /\ worker' =
         IF instance.phase = "report"
         THEN [SetStatus(worker, StatusRow(worker),
                         "Failed: Unable to build instance report")
                  EXCEPT !.pc = "top", !.i = @ + 1]
         ELSE [SetStatus(worker, StatusRow(worker), "Complete")
                  EXCEPT !.pc = "top", !.i = @ + 1,
                         !.splunkd_polls = @ \cup {Key(instance)}]
    /\ UNCHANGED <<instances, stop_execution, mutex, ui, unguarded>>
    /\ UNCHANGED <<splunkd, healthchecks, main, pc, raised, saved, topo>>

\* the slot of signalUpdateProgress, for the next event that the thread emitted:
\* 0 shows 'Cancelled'; any other number takes len(self.instances), which raises
\* TypeError when cleanup has set self.instances to None. An exception that
\* leaves a slot goes to sys.excepthook, which exits the application.
threadWorker_updateprogress ==
    /\ ui.pc = "idle"
    /\ ui.progress_handled < Len(worker.progress)
    /\ ui' = IF worker.progress[ui.progress_handled + 1] # 0 /\ instances = <<>>
             THEN [ui EXCEPT !.progress_handled = @ + 1,
                             !.pc = "exited", !.raised = "TypeError"]
             ELSE [ui EXCEPT !.progress_handled = @ + 1]
    /\ UNCHANGED <<instances, worker, stop_execution, mutex, unguarded>>
    /\ UNCHANGED <<splunkd, healthchecks, main, pc, raised, saved, topo>>

\* the keys of the map of the thread, in the order of the list
PolledKeys(list, map) ==
    LET first(k) == /\ Key(list[k]) \in map
                    /\ \A j \in 1..(k - 1) : Key(list[j]) # Key(list[k])
        F[k \in 0..Len(list)] ==
            IF k = 0 THEN <<>>
            ELSE IF first(k) THEN Append(F[k - 1], Key(list[k]))
            ELSE F[k - 1]
    IN  F[Len(list)]

\* the slot of signalPollingComplete: the map of the thread becomes
\* self.splunkd_polls (here the keys of its instances) and the buttons Topology
\* and Save Report are enabled
threadWorker_complete ==
    /\ ui.pc = "idle"
    /\ ui.complete_handled < Len(worker.complete)
    /\ splunkd_polls' = PolledKeys(worker.instances,
                                   worker.complete[ui.complete_handled + 1])
    /\ ui' = [ui EXCEPT !.complete_handled = @ + 1, !.toggle_enabled = FALSE,
                        !.topology_enabled = TRUE, !.savereport_enabled = TRUE]
    /\ UNCHANGED <<instances, worker, stop_execution, mutex, unguarded>>
    /\ UNCHANGED <<splunkd, healthchecks, main, pc, raised, saved, drawing, layer>>

(***************************************************************************)
(* The topology of the Discovery Report. Names and references are strings   *)
(* taken apart character by character, as str.lower, str.split and the      *)
(* regular expression of add_adjacency take them apart.                     *)
(***************************************************************************)
UpperCase == "ABCDEFGHIJKLMNOPQRSTUVWXYZ"

LowerCase == "abcdefghijklmnopqrstuvwxyz"

Digits == "0123456789"

CharAt(string, k) == SubSeq(string, k, k)

\* the place of the first occurrence of a character in a string, 0 for none
IndexIn(string, char) ==
    LET places == { k \in 1..Len(string) : CharAt(string, k) = char } IN
    IF places = {} THEN 0
    ELSE CHOOSE k \in places : \A j \in places : k <= j

LowerOf ==
    [ char \in { CharAt(UpperCase, k) : k \in 1..Len(UpperCase) } |->
        CharAt(LowerCase, IndexIn(UpperCase, char)) ]

\* str.lower
RECURSIVE lower(_)
lower(string) ==
    IF string = "" THEN ""
    ELSE LET char == CharAt(string, 1) IN
         (IF char \in DOMAIN LowerOf THEN LowerOf[char] ELSE char)
            \o lower(SubSeq(string, 2, Len(string)))

\* str.split(sep) for a separator of one character
RECURSIVE split(_, _)
split(string, sep) ==
    LET k == IndexIn(string, sep) IN
    IF k = 0 THEN <<string>>
    ELSE <<SubSeq(string, 1, k - 1)>> \o split(SubSeq(string, k + 1, Len(string)), sep)

\* string[0:n]
Slice(string, n) == SubSeq(string, 1, IF n < Len(string) THEN n ELSE Len(string))

DigitValue ==
    [ char \in { CharAt(Digits, k) : k \in 1..Len(Digits) } |-> IndexIn(Digits, char) - 1 ]

RECURSIVE ValueOf(_)
ValueOf(numeral) ==
    IF numeral = "" THEN 0
    ELSE 10 * ValueOf(SubSeq(numeral, 1, Len(numeral) - 1))
            + DigitValue[CharAt(numeral, Len(numeral))]

\* 25[0-5]|2[0-4][0-9]|[01]?[0-9][0-9]? over a whole dot-separated part
IsOctet(part) ==
    /\ Len(part) \in 1..3
    /\ \A k \in 1..Len(part) : CharAt(part, k) \in DOMAIN DigitValue
    /\ ValueOf(part) <= 255

\* re.findall(ipaddr_regex, discovered_node): four octets in a row somewhere in
\* the string; between the word boundaries of the expression an octet is a
\* whole part of a name made of letters, digits and dots
IsIPAddress(string) ==
    LET parts == split(string, ".") IN
    \E k \in 1..Len(parts) :
        /\ k + 3 <= Len(parts)
        /\ \A j \in k..(k + 3) : IsOctet(parts[j])

\* the keys of TOPOLOGY that the builder of the graph reads
TOPOLOGY ==
    [ static_width |-> 10,
      nodedraw_user |-> TRUE, nodedraw_searchhead |-> TRUE, nodedraw_indexer |-> TRUE,
      nodedraw_heavyforwarder |-> TRUE, nodedraw_universalforwarder |-> TRUE,
      nodedraw_mgmtconsole |-> TRUE, nodedraw_shcdeployer |-> TRUE,
      nodedraw_clustermaster |-> TRUE, nodedraw_deploymentserver |-> TRUE,
      nodedraw_licensemaster |-> TRUE, nodedraw_inputs |-> TRUE,
      nodedraw_others |-> TRUE,
      adjdraw_web |-> TRUE, adjdraw_clustermgmt |-> TRUE, adjdraw_distsearch |-> TRUE,
      adjdraw_mgmtconsole |-> TRUE, adjdraw_bucketrep |-> TRUE,
      adjdraw_datafwdheavyforwarder |-> TRUE, adjdraw_datafwduniversalforwarder |-> TRUE,
      adjdraw_datafwdinput |-> TRUE, adjdraw_shcdeployment |-> TRUE,
      adjdraw_deployment |-> TRUE, adjdraw_license |-> TRUE ]

NodeRoles ==
    {"user", "sh", "idx", "hf", "uf", "mc", "shcd", "cm", "ds", "lm", "input", "other"}

Corners == {"cornernw", "cornerne", "cornersw", "cornerse"}

\* the key of the nodes dictionary for a primary role, "" when there is none
RoleKey(primary_role) ==
    IF Slice(primary_role, 11) = "Search Head" THEN "sh"
    ELSE IF Slice(primary_role, 7) = "Indexer" THEN "idx"
    ELSE IF primary_role = "Heavy Forwarder" THEN "hf"
    ELSE IF primary_role = "Universal Forwarder" THEN "uf"
    ELSE IF primary_role = "Management Console" THEN "mc"
    ELSE IF primary_role = "Deployer (SHC)" THEN "shcd"
    ELSE IF primary_role = "Cluster Master" THEN "cm"
    ELSE IF primary_role = "Deployment Server" THEN "ds"
    ELSE IF primary_role = "License Master" THEN "lm"
    ELSE IF primary_role = "Forwarder" THEN "uf"
    ELSE ""

\* str.lower(server_name).split('.')[0]
clean_name(snapshot) == split(lower(snapshot.server_name), ".")[1]

\* for each polled instance the name of its node and the key of its role
Named(polls) ==
    [ k \in DOMAIN polls |->
        [name |-> clean_name(polls[k]), key |-> RoleKey(polls[k].primary_role)] ]

\* the instances dictionary: a later instance of the same name replaces an earlier
InstanceNamed(polls, named, name) ==
    polls[CHOOSE k \in DOMAIN polls :
             /\ named[k].name = name
             /\ \A j \in DOMAIN polls : named[j].name = name => j <= k]

\* the nodes dictionary after the loop over the polled instances
PolledNodes(named) ==
    [ role \in NodeRoles |->
        IF role = "user" THEN {"webuser"}
        ELSE { named[k].name : k \in { j \in DOMAIN named : named[j].key = role } } ]

NodeDraw ==
    [ user |-> "nodedraw_user", sh |-> "nodedraw_searchhead", idx |-> "nodedraw_indexer",
      hf |-> "nodedraw_heavyforwarder", uf |-> "nodedraw_universalforwarder",
      mc |-> "nodedraw_mgmtconsole", shcd |-> "nodedraw_shcdeployer",
      cm |-> "nodedraw_clustermaster", ds |-> "nodedraw_deploymentserver",
      lm |-> "nodedraw_licensemaster", input |-> "nodedraw_inputs" ]

\* Graph.add_nodes_from for the corners and for every role that is drawn; the
\* "other" nodes are empty here
GraphOfPolled(named, topology) ==
    LET nodes == PolledNodes(named)
        drawn == UNION { nodes[role] :
                            role \in { r \in DOMAIN NodeDraw : topology[NodeDraw[r]] } }
    IN  [ nodes |-> Corners \cup drawn, colored |-> Corners \cup drawn, edges |-> {} ]

\* socket.gethostbyaddr raised (herror, gaierror)
HostNotFound == "(not found)"

\* add_adjacency on the state of the build: build.Graph, build.nodes and the
\* exception that left the function, if any
add_adjacency(build, discovered_node, dn_role, adj_node, gethostbyaddr) ==
    IF build.exc # NoException THEN build
    ELSE IF discovered_node = "" THEN [build EXCEPT !.exc = "IndexError"]
    ELSE IF CharAt(discovered_node, 1) = "("
            /\ CharAt(discovered_node, Len(discovered_node)) = ")" THEN build
    ELSE
      LET address == split(discovered_node, ":")[1]
          resolved == IF address \in DOMAIN gethostbyaddr
                      THEN gethostbyaddr[address] ELSE HostNotFound
          node == IF IsIPAddress(address)
                  THEN IF resolved = HostNotFound THEN address
                       ELSE split(lower(resolved), ".")[1]
                  ELSE split(lower(address), ".")[1]
          new == node \notin build.Graph.nodes
      IN  [build EXCEPT
             !.nodes[dn_role] = IF new THEN @ \cup {node} ELSE @,
             !.Graph.colored = IF new THEN @ \cup {node} ELSE @,
             !.Graph.nodes = @ \cup {node, adj_node},
             !.Graph.edges = @ \cup {{node, adj_node}}]

\* the rules that scan references, in the order of the code: the switch, the sets
\* of nodes iterated (ent stands for ent_nodes), the attribute scanned and the role
\* of a discovered node
AdjacencyRules ==
    << [adjdraw |-> "adjdraw_distsearch", over |-> {"sh"},
        attr |-> "distributedsearch_peers", dn_role |-> "idx"],
       [adjdraw |-> "adjdraw_datafwdheavyforwarder", over |-> {"hf"},
        attr |-> "forward_servers", dn_role |-> "idx"],
       [adjdraw |-> "adjdraw_datafwduniversalforwarder", over |-> {"uf"},
        attr |-> "forward_servers", dn_role |-> "idx"],
       [adjdraw |-> "adjdraw_datafwdinput", over |-> {"input"},
        attr |-> "forward_servers", dn_role |-> "idx"],
       [adjdraw |-> "adjdraw_clustermgmt", over |-> {"cm"},
        attr |-> "cluster_peers", dn_role |-> "idx"],
       [adjdraw |-> "adjdraw_bucketrep", over |-> {"idx"},
        attr |-> "cluster_peers", dn_role |-> "idx"],
       [adjdraw |-> "adjdraw_shcdeployment", over |-> {"sh"},
        attr |-> "shcluster_deployer", dn_role |-> "shcd"],
       [adjdraw |-> "adjdraw_mgmtconsole", over |-> {"mc"},
        attr |-> "distributedsearch_peers", dn_role |-> "other"],
       [adjdraw |-> "adjdraw_deployment", over |-> {"ds"},
        attr |-> "deployment_clients", dn_role |-> "other"],
       [adjdraw |-> "adjdraw_license",
        over |-> {"sh", "idx", "hf", "mc", "shcd", "cm", "ds", "uf"},
        attr |-> "license_master", dn_role |-> "other"] >>

\* the references that a rule hands to add_adjacency for one instance
References(snapshot, attr) ==
    CASE attr = "distributedsearch_peers" ->
           [k \in DOMAIN snapshot.distributedsearch_peers |->
               snapshot.distributedsearch_peers[k].peerName]
      [] attr = "forward_servers" ->
           [k \in DOMAIN snapshot.forward_servers |-> snapshot.forward_servers[k].title]
      [] attr = "cluster_peers" ->
           [k \in DOMAIN snapshot.cluster_peers |-> snapshot.cluster_peers[k].location]
      [] attr = "deployment_clients" ->
           [k \in DOMAIN snapshot.deployment_clients |->
               snapshot.deployment_clients[k].dns \o ":" \o snapshot.deployment_clients[k].mgmt]
      [] attr = "shcluster_deployer" -> <<snapshot.shcluster_deployer>>
      [] attr = "license_master" -> <<snapshot.license_master>>

RECURSIVE ScanReferences(_, _, _, _, _)
ScanReferences(build, references, dn_role, adj_node, gethostbyaddr) ==
    IF references = <<>> \/ build.exc # NoException THEN build
    ELSE ScanReferences(
             add_adjacency(build, Head(references), dn_role, adj_node, gethostbyaddr),
             Tail(references), dn_role, adj_node, gethostbyaddr)

\* the polled names of the sets a rule iterates, each once; the names that the
\* build discovered are in no instances dictionary and are passed over
RuleNodes(named, rule) ==
    LET first(k) == /\ named[k].key \in rule.over
                    /\ \A j \in 1..(k - 1) :
                          named[j].key \in rule.over => named[j].name # named[k].name
        F[k \in 0..Len(named)] ==
            IF k = 0 THEN <<>>
            ELSE IF first(k) THEN Append(F[k - 1], named[k].name)
            ELSE F[k - 1]
    IN  F[Len(named)]

\* one rule over its nodes. The bucket replication rule iterates nodes['idx']
\* and add_adjacency adds to that very set: the next step of the iteration
\* raises RuntimeError (Set changed size during iteration)
RECURSIVE ScanRule(_, _, _, _, _, _)
ScanRule(build, names, rule, polls, named, gethostbyaddr) ==
    IF names = <<>> \/ build.exc # NoException THEN build
    ELSE LET after == ScanReferences(build,
                          References(InstanceNamed(polls, named, Head(names)), rule.attr),
                          rule.dn_role, Head(names), gethostbyaddr)
         IN  IF after.exc = NoException /\ rule.over = {rule.dn_role}
                /\ after.nodes[rule.dn_role] # build.nodes[rule.dn_role]
             THEN [after EXCEPT !.exc = "RuntimeError"]
             ELSE ScanRule(after, Tail(names), rule, polls, named, gethostbyaddr)

RECURSIVE ScanRules(_, _, _, _, _, _)
ScanRules(build, rules, polls, named, topology, gethostbyaddr) ==
    IF rules = <<>> \/ build.exc # NoException THEN build
    ELSE ScanRules(
             IF topology[Head(rules).adjdraw]
             THEN ScanRule(build, RuleNodes(named, Head(rules)), Head(rules),
                           polls, named, gethostbyaddr)
             ELSE build,
             Tail(rules), polls, named, topology, gethostbyaddr)

\* nodes['user'] is the frozenset {'webuser'}: where the code uses it as a node
\* (the operand of `in Graph.nodes`, the end of an edge) the node is the set
\* itself, written here as Python prints it, and not its member 'webuser'
UserBucket == "frozenset({'webuser'})"

\* Web Access to Search Heads, the first of the rules: for every polled search
\* head whose web server runs, an edge from nodes['user'] when both are nodes
web_access(build, polls, named, topology) ==
    IF ~topology.adjdraw_web THEN build
    ELSE LET reached == { sh \in build.nodes["sh"] :
                            /\ InstanceNamed(polls, named, sh).http_server = PyTrue
                            /\ UserBucket \in build.Graph.nodes
                            /\ sh \in build.Graph.nodes }
         IN  [build EXCEPT !.Graph.edges = @ \cup { {UserBucket, sh} : sh \in reached }]

\* the build up to the test of the number of nodes
BuildGraph(polls, topology, gethostbyaddr) ==
    LET named == Named(polls) IN
    ScanRules(web_access([Graph |-> GraphOfPolled(named, topology),
                          nodes |-> PolledNodes(named),
                          exc |-> NoException],
                         polls, named, topology),
              AdjacencyRules, polls, named, topology, gethostbyaddr)

NotEnoughNodes == "Not enough nodes found to build topology."

ExceptionWhileBuilding == "Exception while building topology"

\* what the handler shows: a warning for an exception anywhere in it, a warning
\* when Graph has at most one node, the figure otherwise, drawn at the positions
\* that layer_positions gives to the sorted nodes of each layer. A node that add_edge
\* created has no color, and the list of the node colors raises KeyError.
Drawing(polls, topology, gethostbyaddr) ==
    LET build == BuildGraph(polls, topology, gethostbyaddr) IN
    IF build.exc # NoException
    THEN [pc |-> "warning", message |-> ExceptionWhileBuilding, exc |-> build.exc,
          Graph |-> build.Graph, nodes |-> build.nodes, topology |-> topology]
    ELSE IF Cardinality(build.Graph.nodes) <= 1
    THEN [pc |-> "warning", message |-> NotEnoughNodes, exc |-> NoException,
          Graph |-> build.Graph, nodes |-> build.nodes, topology |-> topology]
    ELSE IF build.Graph.colored # build.Graph.nodes
    THEN [pc |-> "warning", message |-> ExceptionWhileBuilding, exc |-> "KeyError",
          Graph |-> build.Graph, nodes |-> build.nodes, topology |-> topology]
    ELSE [pc |-> "drawn", message |-> "", exc |-> NoException,
          Graph |-> build.Graph, nodes |-> build.nodes, topology |-> topology]

\* an x-coordinate is the fraction num / den: the division of line 1913 is the
\* true division of Python 3, and with den = 2 * len(layernodes) every
\* coordinate of a layer is a whole number of such parts
XPos(x, den) == [num |-> x * den, den |-> den]

\* a layer that keeps the alignment of its configuration however wide it is
AlignmentAsConfigured(n, bufferwidth, xalignment, topology) == xalignment

\* "If statically separated nodes are too wide, justify instead"
Alignment(n, bufferwidth, xalignment, topology) ==
    IF topology.static_width * n > 100 - (bufferwidth * 2)
    THEN "justify" ELSE xalignment

\* layer_positions: the position <<x, y>> of each node of layernodes, <<>> for
\* no node; an alignment that is none of left, right, center and justify gives
\* no position to any node
layer_positions(layernodes, layerheight, bufferwidth, xalignment, topology) ==
    LET n == Len(layernodes)
        den == 2 * n
        alignment == Alignment(n, bufferwidth, xalignment, topology)
        \* nodewidth and nodewidth / 2 in parts of 1 / den
        nodewidth == 2 * (100 - (bufferwidth * 2))
        x(k) == IF alignment = "left"
                THEN XPos(bufferwidth + (k - 1) * topology.static_width, den)
                ELSE IF alignment = "right"
                THEN XPos(100 - bufferwidth - (k - 1) * topology.static_width, den)
                ELSE [num |-> bufferwidth * den + 100 - (bufferwidth * 2)
                                 + (k - 1) * nodewidth,
                      den |-> den]
    IN  IF layernodes = <<>> THEN <<>>
        ELSE IF alignment \notin {"left", "right", "center", "justify"} THEN <<>>
        ELSE [ k \in 1..n |-> [node |-> layernodes[k], x |-> x(k), y |-> layerheight] ]

\* layer_positions is called for a layer
layer_positions_called ==
    /\ layer.pc = "called"
    /\ layer' = [layer EXCEPT
          !.pc = "returned",
          !.positions = layer_positions(layer.layernodes, layer.layerheight,
                                        layer.bufferwidth, layer.xalignment,
                                        [TOPOLOGY EXCEPT !.static_width = layer.static_width])]
    /\ UNCHANGED <<splunkd, healthchecks, main, pc, raised, saved, discovery,
                   splunkd_polls, drawing>>

buttonTopology_clicked(topology, gethostbyaddr) ==
    /\ drawing' = Drawing(splunkd_polls, topology, gethostbyaddr)
    /\ UNCHANGED <<splunkd, healthchecks, main, pc, raised, saved, discovery, splunkd_polls, layer>>

\* service.info with every key
InfoOf(version, startup, cores, ram, roles, product, mode) ==
    [ version |-> version, startup_time |-> startup, numberOfCores |-> cores,
      physicalMemoryMB |-> ram, server_roles |-> roles, product_type |-> product,
      mode |-> mode,
      has |-> { "startup_time", "numberOfCores", "physicalMemoryMB", "server_roles",
                "product_type", "mode" } ]

\* the same response without the keys of missing
Without(info, missing) == [info EXCEPT !.has = @ \ missing]

NominalVersion == <<"7", "2", "1">>

(***************************************************************************)
(* One instance polled as MainWindow.poll does: the population steps in     *)
(* their order, then report_builder. D gives, for every step, the set of    *)
(* responses the server may send.                                           *)
(***************************************************************************)
PollSequence(D) ==
    \/ /\ pc = "poll_service_info"
       /\ \E info \in D.info : poll_service_info(info)
    \/ /\ pc = "poll_service_settings"
       /\ \E settings \in D.settings : poll_service_settings(settings)
    \/ /\ pc = "poll_service_messages"
       /\ \E entries \in D.messages : poll_service_messages(entries)
    \/ /\ pc = "get_service_confs"
       /\ \E confs \in D.confs : get_service_confs(confs)
    \/ /\ pc = "get_services_admin_inputstatus"
       /\ \E status \in D.inputstatus : get_services_admin_inputstatus(status)
    \/ /\ pc = "poll_service_apps"
       /\ \E apps \in D.apps : poll_service_apps(apps)
    \/ /\ pc = "get_services_data"
       /\ \E data \in D.data : get_services_data(data)
    \/ /\ pc = "get_services_kvstore"
       /\ \E kvstore \in D.kvstore : get_services_kvstore(kvstore)
    \/ /\ pc = "get_services_cluster"
       /\ \E cluster \in D.cluster : get_services_cluster(cluster)
    \/ /\ pc = "get_services_shcluster"
       /\ \E shcluster \in D.shcluster : get_services_shcluster(shcluster)
    \/ /\ pc = "get_services_deployment"
       /\ \E clients \in D.deployment : get_services_deployment(clients)
    \/ /\ pc = "get_services_licenser"
       /\ \E licenser \in D.licenser : get_services_licenser(licenser)
    \/ /\ pc = "get_services_search"
       /\ \E peers \in D.search : get_services_search(peers)
    \/ /\ pc = "get_services_server_health_details"
       /\ \E details \in D.health : get_services_server_health_details(details)
    \/ /\ pc = "get_services_server_status"
       /\ \E status \in D.status : get_services_server_status(status)
    \/ /\ pc \notin {"done", "aborted"}
       /\ \E now \in D.now : report_builder(now)

InitWith(configs) ==
    /\ splunkd = SplunkdDefaults
    /\ healthchecks \in configs
    /\ main = MainConnected
    /\ pc = "poll_service_info"
    /\ raised = NoException
    /\ saved = <<>>
    /\ DiscoveryClosed

(***************************************************************************)
(* The responses of an unremarkable server.                                 *)
(***************************************************************************)
NominalInfo(roles) == InfoOf(NominalVersion, 1000, 16, "32768", roles, "enterprise", "normal")

Message(severity, title) == [severity |-> severity, title |-> title, complete |-> TRUE]

ClusterAnswer(maintenance, rolling, pending, sfmet, rfmet, peers, searchheads) ==
    [ has_config |-> TRUE, mode |-> "master", deployer |-> "",
      has_master_info |-> TRUE, maintenance_mode |-> maintenance,
      rolling_restart_flag |-> rolling,
      has_generation |-> TRUE, pending_last_reason |-> pending,
      search_factor_met |-> sfmet, replication_factor_met |-> rfmet,
      has_peers |-> TRUE, peers |-> peers,
      has_searchheads |-> TRUE, searchheads |-> searchheads ]

Peer(location, searchable) == [location |-> location, is_searchable |-> searchable]
SearchHead(location, status) == [location |-> location, status |-> status]

HealthyCluster ==
    ClusterAnswer("0", "0", None, "1", "1",
                  <<Peer("idx01:8089", "1"), Peer("idx02:8089", "0")>>,
                  <<SearchHead("sh01:8089", "Connected")>>)

\* an instance that is no cluster master: /services/cluster/master/info has no entry
NoClusterMaster ==
    [HealthyCluster EXCEPT !.mode = "disabled", !.has_master_info = FALSE]

ShclusterAnswer(rolling, ready, joined) ==
    [ has_config |-> TRUE, has_status |-> TRUE,
      rolling_restart_flag |-> rolling, service_ready_flag |-> ready,
      min_peers_joined_flag |-> joined,
      has_members |-> TRUE, members |-> <<"sh01:8089", "sh02:8089">> ]

NoShcluster ==
    [ShclusterAnswer("0", "0", "0") EXCEPT
        !.has_config = FALSE, !.has_status = FALSE, !.has_members = FALSE]

Mount(mount_point, free, capacity) ==
    [mount_point |-> mount_point, free |-> free, capacity |-> capacity, complete |-> TRUE]

Hostwide(cpu_idle_pct, mem, mem_used, swap, swap_used) ==
    [ cpu_idle_pct |-> cpu_idle_pct, mem |-> mem, mem_used |-> mem_used,
      swap |-> swap, swap_used |-> swap_used,
      has |-> {"cpu_idle_pct", "mem", "mem_used", "swap", "swap_used"} ]

NominalHostwide == Hostwide(700, 16384, 8192, 4096, 1024)

NominalStatus ==
    [ partitions |-> <<Mount("/", 512, 1024), Mount("/opt", 4096, 8192)>>,
      hostwide |-> NominalHostwide ]

Nominal ==
    [ info |-> {NominalInfo({"indexer"})},
      settings |-> {[enableSplunkWebSSL |-> "0", startwebserver |-> "1"]},
      messages |-> {<<Message("warn", "Disk space low")>>},
      confs |-> {[ds_disabled |-> "0", ds_targeturi |-> "ds01.corp:8089"]},
      inputstatus |-> {[cooked |-> <<"uf01.corp">>]},
      apps |-> {<<"search", "launcher">>},
      data |-> {[cooked |-> <<"9997">>, raw |-> <<>>, udp |-> <<"514">>,
                 servers |-> <<>>]},
      kvstore |-> {[port |-> "8191"]},
      cluster |-> {NoClusterMaster},
      shcluster |-> {NoShcluster},
      deployment |-> {<<>>},
      licenser |-> {[slaves |-> <<"splunk01">>, master_uri |-> "self"]},
      search |-> {<<>>},
      health |-> {[has_health |-> TRUE, health |-> "green",
                   features |-> <<"File Monitor Input = green">>]},
      status |-> {NominalStatus},
      now |-> {701000} ]

\* Nominal with the responses of the steps of changes replaced
With(changes) ==
    [step \in DOMAIN Nominal |->
        IF step \in DOMAIN changes THEN changes[step] ELSE Nominal[step]]

(***************************************************************************)
(* The boolean checks, the unknown rows and the failures of report_builder, *)
(* under the default configuration.                                         *)
(***************************************************************************)
Flags == {"0", "1"}

ChecksResponses ==
    With([ info |-> { NominalInfo({"cluster_master", "shc_member", "search_head"}),
                      NominalInfo({"universal_forwarder"}),
                      Without(NominalInfo({"cluster_master"}),
                              {"startup_time", "numberOfCores", "physicalMemoryMB"}),
                      [NominalInfo({"indexer"}) EXCEPT !.version = <<"8">>],
                      [NominalInfo({"indexer"}) EXCEPT !.version = <<"">>],
                      [NominalInfo({"indexer"}) EXCEPT !.version = <<"7", "x", "1">>] },
           settings |-> { [enableSplunkWebSSL |-> ssl, startwebserver |-> "1"] :
                            ssl \in Flags },
           messages |-> { <<>>, <<Message("info", "Restart completed")>>,
                          <<Message("error", "License expired")>> },
           cluster |-> { ClusterAnswer(m, r, p, sf, rf, HealthyCluster.peers,
                                       HealthyCluster.searchheads) :
                           m \in Flags, r \in Flags, p \in {None, "bucket fixup"},
                           sf \in Flags, rf \in Flags }
                       \cup {NoClusterMaster,
                             [HealthyCluster EXCEPT !.has_generation = FALSE]},
           shcluster |-> { ShclusterAnswer(r, sr, j) :
                             r \in Flags, sr \in Flags, j \in Flags }
                         \cup {NoShcluster},
           status |-> { NominalStatus,
                        [partitions |-> <<>>,
                         hostwide |-> [NominalHostwide EXCEPT !.has = {}]] } ])

InitChecks == InitWith({HEALTHCHECKS})

NextChecks == PollSequence(ChecksResponses)

SpecChecks == InitChecks /\ [][NextChecks]_vars

(***************************************************************************)
(* What the formulas read from the report.                                  *)
(***************************************************************************)
Built == pc = "done"
Returned == pc = "done" /\ raised = NoException

RowsNamed(category, name) ==
    { i \in DOMAIN splunkd.report :
        splunkd.report[i].category = category /\ splunkd.report[i].name = name }

HasRow(category, name) == RowsNamed(category, name) # {}

RowOf(category, name) == splunkd.report[CHOOSE i \in RowsNamed(category, name) : TRUE]

HealthOf(category, name) == RowOf(category, name).health

Healths == {"OK", "Caution", "Warning", "Unknown"}

\* the row each threshold key is about
CheckOf ==
    [ version_caution |-> <<"Server", "Version">>,
      version_warning |-> <<"Server", "Version">>,
      uptime_caution |-> <<"Server", "Uptime">>,
      uptime_warning |-> <<"Server", "Uptime">>,
      cpu_cores_caution |-> <<"Resources", "CPU Cores">>,
      mem_capacity_caution |-> <<"Resources", "RAM Size">>,
      http_ssl_caution |-> <<"Server", "HTTP SSL">>,
      messages_caution |-> <<"Server", "Messages">>,
      cpu_usage_caution |-> <<"Resources", "CPU Usage">>,
      cpu_usage_warning |-> <<"Resources", "CPU Usage">>,
      mem_usage_caution |-> <<"Resources", "RAM Usage">>,
      mem_usage_warning |-> <<"Resources", "RAM Usage">>,
      swap_usage_caution |-> <<"Resources", "Swap Usage">>,
      swap_usage_warning |-> <<"Resources", "Swap Usage">>,
      diskpartition_usage_caution |-> <<"Resources", "Disk Usage">>,
      diskpartition_usage_warning |-> <<"Resources", "Disk Usage">>,
      cluster_maintenance_caution |-> <<"Cluster", "IDXC Maintenance Mode">>,
      cluster_rollingrestart_caution |-> <<"Cluster", "IDXC Rolling Restart">>,
      cluster_alldatasearchable_warning |-> <<"Cluster", "IDXC All Data Searchable">>,
      cluster_searchfactor_caution |-> <<"Cluster", "IDXC Search Factor Met">>,
      cluster_replicationfactor_caution |-> <<"Cluster", "IDXC Rep Factor Met">>,
      cluster_peersnotsearchable_warning |-> <<"Cluster", "IDXC Searchable Peers">>,
      cluster_searchheadsnotconnected_warning |->
          <<"Cluster", "IDXC Connected Search Heads">>,
      shcluster_rollingrestart_caution |-> <<"Cluster", "SHC Rolling Restart">>,
      shcluster_serviceready_warning |-> <<"Cluster", "SHC Service Ready">>,
      shcluster_minpeersjoined_warning |-> <<"Cluster", "SHC Minimum Peers Joined">> ]

HasCheckRow(key) == HasRow(CheckOf[key][1], CheckOf[key][2])

\* the threshold keys of the check that key belongs to
KeysOfCheck(key) == { k \in HealthcheckKeys : CheckOf[k] = CheckOf[key] }

IDXCNames ==
    { "IDXC Label", "IDXC Mode", "IDXC Site", "IDXC Maintenance Mode",
      "IDXC Rolling Restart", "IDXC All Data Searchable", "IDXC Search Factor",
      "IDXC Search Factor Met", "IDXC Rep Factor", "IDXC Rep Factor Met",
      "IDXC Searchable Peers", "IDXC Connected Search Heads" }

SHCNames ==
    { "SHC Label", "SHC Rep Factor", "SHC Rolling Restart", "SHC Service Ready",
      "SHC Minimum Peers Joined" }

ClusterRows == { i \in DOMAIN splunkd.report : splunkd.report[i].category = "Cluster" }

\* the boolean checks: the field polled, the state of it that is bad, the health
\* reported for the bad state and the role that gates the row ("" for none)
BooleanChecks ==
    { [key |-> "http_ssl_caution", flag |-> splunkd.http_ssl,
       bad |-> PyFalse, severity |-> "Caution", role |-> ""],
      [key |-> "cluster_maintenance_caution", flag |-> splunkd.cluster_maintenance,
       bad |-> PyTrue, severity |-> "Caution", role |-> "cluster_master"],
      [key |-> "cluster_rollingrestart_caution", flag |-> splunkd.cluster_rollingrestart,
       bad |-> PyTrue, severity |-> "Caution", role |-> "cluster_master"],
      [key |-> "cluster_alldatasearchable_warning",
       flag |-> splunkd.cluster_alldatasearchable,
       bad |-> PyFalse, severity |-> "Warning", role |-> "cluster_master"],
      [key |-> "cluster_searchfactor_caution", flag |-> splunkd.cluster_searchfactormet,
       bad |-> PyFalse, severity |-> "Caution", role |-> "cluster_master"],
      [key |-> "cluster_replicationfactor_caution",
       flag |-> splunkd.cluster_replicationfactormet,
       bad |-> PyFalse, severity |-> "Caution", role |-> "cluster_master"],
      [key |-> "shcluster_rollingrestart_caution",
       flag |-> splunkd.shcluster_rollingrestart,
       bad |-> PyTrue, severity |-> "Caution", role |-> "shc_member"],
      [key |-> "shcluster_serviceready_warning", flag |-> splunkd.shcluster_serviceready,
       bad |-> PyFalse, severity |-> "Warning", role |-> "shc_member"],
      [key |-> "shcluster_minpeersjoined_warning",
       flag |-> splunkd.shcluster_minpeersjoined,
       bad |-> PyFalse, severity |-> "Warning", role |-> "shc_member"] }

Gated(check) == check.role = "" \/ check.role \in splunkd.roles

\* the checks on a number or a list, with whether the field holds its default
DefaultedChecks ==
    { [key |-> "uptime_caution", unset |-> splunkd.startup_time = 0],
      [key |-> "cpu_cores_caution", unset |-> splunkd.cores = 0],
      [key |-> "mem_capacity_caution", unset |-> splunkd.ram = SplunkdDefaults.ram],
      [key |-> "cpu_usage_caution", unset |-> splunkd.cpu_usage = 0],
      [key |-> "mem_usage_caution", unset |-> splunkd.mem_usage = 0],
      [key |-> "swap_usage_caution", unset |-> splunkd.swap_usage = 0],
      [key |-> "diskpartition_usage_caution", unset |-> splunkd.disk_partitions = <<>>],
      [key |-> "messages_caution", unset |-> splunkd.messages = <<>>] }
    \cup
    { [key |-> check.key, unset |-> check.flag = None] : check \in BooleanChecks }

(***************************************************************************)
(* The gates of the report: configurations with up to MaxDisabled keys, or  *)
(* every key of one check, or every key, switched off, on instances of      *)
(* several role sets.                                                       *)
(***************************************************************************)
MaxDisabled == 1

RECURSIVE KeySets(_)
KeySets(n) ==
    IF n = 0 THEN {{}}
    ELSE LET smaller == KeySets(n - 1) IN
         smaller \cup { keys \cup {k} : keys \in smaller, k \in HealthcheckKeys }

GateConfigs ==
    { DisableKeys(keys) :
        keys \in KeySets(MaxDisabled)
                 \cup { KeysOfCheck(key) : key \in HealthcheckKeys }
                 \cup {HealthcheckKeys} }

GateResponses ==
    With([ info |-> { NominalInfo({"cluster_master", "shc_member", "search_head"}),
                      NominalInfo({"cluster_master"}),
                      NominalInfo({"shc_member", "search_head"}),
                      NominalInfo({"universal_forwarder"}) },
           cluster |-> {HealthyCluster},
           shcluster |-> {ShclusterAnswer("0", "1", "1")} ])

InitGate == InitWith(GateConfigs)

NextGate == PollSequence(GateResponses)

SpecGate == InitGate /\ [][NextGate]_vars

\* C3 as stated: once the report is built, a threshold key that is disabled has no
\* row of its check in the report, also when the other key of a two-threshold check
\* is still enabled.
C3_DisabledKeyNoRow ==
    Built => \A key \in HealthcheckKeys :
                ~Enabled(healthchecks, key) => ~HasCheckRow(key)

\* C3 amended: once the report is built, a check all of whose threshold keys are
\* disabled has no row in the report, and a check's row that is in the report
\* carries a health, never the empty health of an informational row.
C3_DisabledCheckNoRow ==
    Built => \A key \in HealthcheckKeys :
                /\ (\A k \in KeysOfCheck(key) : ~Enabled(healthchecks, k))
                      => ~HasCheckRow(key)
                /\ HasCheckRow(key)
                      => \A i \in RowsNamed(CheckOf[key][1], CheckOf[key][2]) :
                            splunkd.report[i].health \in Healths

\* both CPU thresholds and one single-threshold check are off; the report has
\* neither row and still has the rows of the checks left on
C3_Witness ==
    /\ Returned
    /\ ~Enabled(healthchecks, "cpu_usage_warning")
    /\ ~Enabled(healthchecks, "cpu_usage_caution")
    /\ Enabled(healthchecks, "mem_usage_warning")
    /\ splunkd.cpu_usage # 0
    /\ ~HasRow("Resources", "CPU Usage")
    /\ HasRow("Resources", "RAM Usage")
    /\ HasRow("Server", "Version")

\* C7: once the report is built, a row of category Cluster is an indexer-cluster
\* row on an instance with the cluster_master role or a search-head-cluster row on
\* an instance with the shc_member role, whatever the configuration; an instance
\* with neither role has no Cluster row.
C7_ClusterRowsGatedByRole ==
    Built => \A i \in ClusterRows :
                \/ /\ splunkd.report[i].name \in IDXCNames
                   /\ "cluster_master" \in splunkd.roles
                \/ /\ splunkd.report[i].name \in SHCNames
                   /\ "shc_member" \in splunkd.roles

\* a universal forwarder polled to the end under the default configuration, whose
\* cluster answers were recorded: no Cluster row in its report
C7_Witness ==
    /\ Returned
    /\ splunkd.roles = {"universal_forwarder"}
    /\ healthchecks = HEALTHCHECKS
    /\ splunkd.cluster_peers # <<>>
    /\ splunkd.cluster_label # ""
    /\ ClusterRows = {}
    /\ HasRow("Counts", "Apps")

(***************************************************************************)
(* The usage checks: every CPU, RAM and swap usage from 0 to 100 percent,   *)
(* under several pairs of thresholds for one of the three checks at a time. *)
(***************************************************************************)
UsagePairs ==
    { <<90, 80>>, <<95, 50>>, <<100, 1>>, <<80, 80>>, <<50, 80>>,
      <<0, 80>>, <<90, 0>>, <<0, 0>> }

UsageConfigs ==
    { Configure([cpu_usage_warning |-> pair[1], cpu_usage_caution |-> pair[2]]) :
        pair \in UsagePairs }
    \cup
    { Configure([mem_usage_warning |-> pair[1], mem_usage_caution |-> pair[2]]) :
        pair \in UsagePairs }
    \cup
    { Configure([swap_usage_warning |-> pair[1], swap_usage_caution |-> pair[2]]) :
        pair \in UsagePairs }

\* idle time in tenths of a percent; memory and swap used in steps of 1/128 of
\* the total, which gives every percentage from 0 to 100
UsageAnswers ==
    { Hostwide(10 * idle, 16384, 8192, 4096, 1024) : idle \in 0..100 }
    \cup { Hostwide(700, 16384, 128 * k, 4096, 1024) : k \in 0..128 }
    \cup { Hostwide(700, 16384, 8192, 4096, 32 * k) : k \in 0..128 }
    \cup { Hostwide(700, 16384, 8192, 0, 0),
           [NominalHostwide EXCEPT !.has = {"cpu_idle_pct", "mem"}] }

UsageResponses ==
    With([ status |-> { [NominalStatus EXCEPT !.hostwide = answer] :
                          answer \in UsageAnswers } ])

InitUsage == InitWith(UsageConfigs)

NextUsage == PollSequence(UsageResponses)

SpecUsage == InitUsage /\ [][NextUsage]_vars

\* the hostwide answer was read to its last key
HostwidePolled == splunkd.swap_used # Unset

UsageChecks ==
    { [name |-> "CPU Usage", usage |-> splunkd.cpu_usage,
       warning |-> healthchecks.cpu_usage_warning,
       caution |-> healthchecks.cpu_usage_caution],
      [name |-> "RAM Usage", usage |-> splunkd.mem_usage,
       warning |-> healthchecks.mem_usage_warning,
       caution |-> healthchecks.mem_usage_caution],
      [name |-> "Swap Usage", usage |-> splunkd.swap_usage,
       warning |-> healthchecks.swap_usage_warning,
       caution |-> healthchecks.swap_usage_caution] }

\* C4: once the hostwide usage was polled and the report is built, each of the CPU,
\* RAM and swap usage checks with both thresholds set has one row whose value is
\* '<n>%' for the polled usage n in 0..100 and whose health is Warning for n >= the
\* warning threshold, Caution for n in [caution, warning) and OK for n below the
\* caution threshold.
C4_UsageHealthForEveryValue ==
    (Returned /\ HostwidePolled) =>
        \A check \in UsageChecks :
            (check.warning # 0 /\ check.caution # 0 /\ check.usage \in 0..100) =>
                /\ Cardinality(RowsNamed("Resources", check.name)) = 1
                /\ RowOf("Resources", check.name).value = <<ToString(check.usage) \o "%">>
                /\ HealthOf("Resources", check.name) =
                      IF check.usage >= check.warning THEN "Warning"
                      ELSE IF check.usage >= check.caution THEN "Caution"
                      ELSE "OK"

(***************************************************************************)
(* The version check: versions around the thresholds, under every pair of   *)
(* thresholds drawn from VersionThresholds (hundredths: 710 is 7.1).        *)
(***************************************************************************)
VersionThresholds == {0, 500, 600, 710, 720}

VersionConfigs ==
    { Configure([version_warning |-> warning, version_caution |-> caution]) :
        warning \in VersionThresholds, caution \in VersionThresholds }

Versions ==
    { <<major, minor, "3">> : major \in {"4", "5", "6", "7", "8"},
                              minor \in {"0", "1", "2", "10"} }
    \cup { <<"6", "0">>, <<"7", "2", "1", "1">>, <<"">>, <<"8">>, <<"7", "x", "1">> }

VersionResponses ==
    With([ info |-> { [NominalInfo({"indexer"}) EXCEPT !.version = version] :
                        version \in Versions } ])

InitVersion == InitWith(VersionConfigs)

NextVersion == PollSequence(VersionResponses)

SpecVersion == InitVersion /\ [][NextVersion]_vars

\* the number major.minor of the polled version, in hundredths
MajorMinor ==
    LET major == splunkd.version[1]
        minor == splunkd.version[2]
    IN  100 * Numerals[major]
        + (IF Len(minor) = 1 THEN 10 * Numerals[minor] ELSE Numerals[minor])

VersionChecked ==
    /\ Returned
    /\ Enabled(healthchecks, "version_warning") \/ Enabled(healthchecks, "version_caution")
    /\ Len(splunkd.version) >= 2

\* C5: once the report is built for a polled version major.minor[...], with either
\* version threshold set, the Version row's health is Warning when major.minor <=
\* version_warning (whichever of the two thresholds is the larger), otherwise
\* Caution when major.minor <= version_caution, otherwise OK.
C5_VersionThresholdsAreFloors ==
    VersionChecked =>
        /\ Cardinality(RowsNamed("Server", "Version")) = 1
        /\ HealthOf("Server", "Version") =
              IF MajorMinor <= healthchecks.version_warning THEN "Warning"
              ELSE IF MajorMinor <= healthchecks.version_caution THEN "Caution"
              ELSE "OK"

\* a version below a warning threshold that lies under the caution threshold
C5_Witness ==
    /\ VersionChecked
    /\ healthchecks.version_warning = 600
    /\ healthchecks.version_caution = 720
    /\ splunkd.version = <<"5", "10", "3">>
    /\ HealthOf("Server", "Version") = "Warning"

(***************************************************************************)
(* The disk check: every list of up to MaxMounts mounts whose usage lies    *)
(* on and next to the thresholds, in every order. A mount holds 1024 MB;    *)
(* free is chosen so that 100 * used / capacity is no tie of '%.1f'.        *)
(***************************************************************************)
MaxMounts == 2

MountPoints == <<"/", "/opt", "/var", "/data">>

\* 100.0, 90.0, 89.9, 80.0, 79.9, 50.0 and 0.0 percent used
FreeValues == {0, 102, 103, 205, 206, 512, 1024}

RECURSIVE MountLists(_)
MountLists(n) ==
    IF n = 0 THEN {<<>>}
    ELSE LET shorter == MountLists(n - 1) IN
         shorter \cup { Append(list, Mount(MountPoints[Len(list) + 1], free, 1024)) :
                          list \in shorter, free \in FreeValues }

DiskPairs == { <<90, 80>>, <<80, 90>>, <<50, 50>>, <<90, 0>>, <<0, 80>> }

DiskConfigs ==
    { Configure([diskpartition_usage_warning |-> pair[1],
                 diskpartition_usage_caution |-> pair[2]]) : pair \in DiskPairs }

DiskResponses ==
    With([ status |-> { [NominalStatus EXCEPT !.partitions = list] :
                          list \in MountLists(MaxMounts) }
                      \cup { [NominalStatus EXCEPT !.partitions = <<Mount("/", 0, 0)>>],
                             [NominalStatus EXCEPT !.partitions =
                                <<Mount("/", 512, 1024),
                                  [Mount("/opt", 0, 1024) EXCEPT !.complete = FALSE]>>] } ])

InitDisk == InitWith(DiskConfigs)

NextDisk == PollSequence(DiskResponses)

SpecDisk == InitDisk /\ [][NextDisk]_vars

\* a mount's own severity: 3 for Warning, 2 for Caution, 1 for OK
Severity(mount) ==
    IF mount.used >= 10 * healthchecks.diskpartition_usage_warning THEN 3
    ELSE IF mount.used >= 10 * healthchecks.diskpartition_usage_caution THEN 2
    ELSE 1

SeverityName == <<"OK", "Caution", "Warning">>

MaxSeverity ==
    CHOOSE severity \in 1..3 :
        /\ \E i \in DOMAIN splunkd.disk_partitions :
              Severity(splunkd.disk_partitions[i]) = severity
        /\ \A i \in DOMAIN splunkd.disk_partitions :
              Severity(splunkd.disk_partitions[i]) <= severity

\* the entries of a joined value, without the separators
Entries(value) == SelectSeq(value, LAMBDA token : token # ", ")

DiskChecked ==
    /\ Returned
    /\ splunkd.disk_partitions # <<>>
    /\ \/ Enabled(healthchecks, "diskpartition_usage_warning")
       \/ Enabled(healthchecks, "diskpartition_usage_caution")

\* C6: once the report is built for a non-empty list of mounts, there is one Disk
\* Usage row, its health is the greatest severity of any mount (Warning for used%
\* >= diskpartition_usage_warning, else Caution for used% >= diskpartition_usage_
\* caution, else OK), and its value has one entry per mount, in the order of the
\* mounts, whatever the mount's own severity.
C6_DiskHealthIsMaxSeverity ==
    DiskChecked =>
        /\ Cardinality(RowsNamed("Resources", "Disk Usage")) = 1
        /\ HealthOf("Resources", "Disk Usage") = SeverityName[MaxSeverity]
        /\ LET entries == Entries(RowOf("Resources", "Disk Usage").value) IN
           /\ Len(entries) = Len(splunkd.disk_partitions)
           /\ \A i \in DOMAIN entries :
                 LET mount == splunkd.disk_partitions[i] IN
                 entries[i] = "'" \o mount.name \o "' " \o ToString(mount.used \div 10)
                              \o "% of " \o mount.total

\* a mount over the warning threshold followed by one under the caution threshold
C6_Witness ==
    /\ DiskChecked
    /\ Len(splunkd.disk_partitions) = 2
    /\ Severity(splunkd.disk_partitions[1]) = 3
    /\ Severity(splunkd.disk_partitions[2]) = 1
    /\ HealthOf("Resources", "Disk Usage") = "Warning"
    /\ Len(RowOf("Resources", "Disk Usage").value) = 3

\* C8: once the report is built, each enabled boolean check whose row is due (its
\* cluster role is in the role set) and whose boolean was polled has a row with the
\* check's Caution or Warning when the boolean is in its bad state and with OK
\* when it is in its good state; HTTP SSL enabled gives OK.
C8_BooleanChecksHealth ==
    Returned =>
        \A check \in BooleanChecks :
            (Enabled(healthchecks, check.key) /\ Gated(check) /\ check.flag # None) =>
                /\ HasCheckRow(check.key)
                /\ HealthOf(CheckOf[check.key][1], CheckOf[check.key][2]) =
                      IF check.flag = check.bad THEN check.severity ELSE "OK"

\* C9: once the report is built, the row of an enabled check whose field still
\* holds its constructor default (None, 0 or the empty list) has health Unknown and
\* value '?'.
C9_DefaultsReportedUnknown ==
    Returned =>
        \A check \in DefaultedChecks :
            (Enabled(healthchecks, check.key) /\ check.unset /\ HasCheckRow(check.key)) =>
                \A i \in RowsNamed(CheckOf[check.key][1], CheckOf[check.key][2]) :
                    /\ splunkd.report[i].health = "Unknown"
                    /\ splunkd.report[i].value = <<"?">>

\* C10: report_builder raises nothing, whatever the snapshot and the
\* configuration, and the report it leaves runs to its last row.
C10_ReportBuilderNeverRaises ==
    Built =>
        /\ raised = NoException
        /\ HasRow("Counts", "Forwarders")

\* the rows report_builder appends whatever the snapshot and the configuration
Unconditional(row) ==
    \/ row.category \in {"Ports", "Adjacencies", "Counts"}
    \/ /\ row.category = "Server"
       /\ row.name \in { "Address", "Server Name", "GUID", "Type", "Roles",
                         "Primary Role Guess", "OS", "Web Enabled" }

\* C11 as stated: every row of a report has a health among OK, Caution, Warning,
\* Unknown and N/A, and the unconditional rows carry N/A.
C11_HealthAmongFiveWithNA ==
    Built => \A i \in DOMAIN splunkd.report :
                /\ splunkd.report[i].health \in Healths \cup {"N/A"}
                /\ Unconditional(splunkd.report[i]) => splunkd.report[i].health = "N/A"

\* C11 amended: every row of a report, complete or cut short by an exception, has
\* a health among OK, Caution, Warning, Unknown and the empty string, and the
\* unconditional rows carry the empty string, report_append storing '' for N/A.
C11_HealthAmongFiveWithEmpty ==
    Built => \A i \in DOMAIN splunkd.report :
                /\ splunkd.report[i].health \in Healths \cup {""}
                /\ Unconditional(splunkd.report[i]) => splunkd.report[i].health = ""

\* a complete report with an informational row and rows of three severities
C11_Witness ==
    /\ Returned
    /\ HealthOf("Ports", "Management Port") = ""
    /\ HealthOf("Counts", "Apps") = ""
    /\ \E i \in DOMAIN splunkd.report : splunkd.report[i].health = "Warning"
    /\ \E i \in DOMAIN splunkd.report : splunkd.report[i].health = "Unknown"
    /\ \E i \in DOMAIN splunkd.report : splunkd.report[i].health = "OK"

(***************************************************************************)
(* The export of one instance's report, on instances whose messages and     *)
(* adjacencies put commas into the values.                                  *)
(***************************************************************************)
ExportResponses ==
    With([ info |-> { NominalInfo({"cluster_master", "shc_member", "search_head"}),
                      NominalInfo({"indexer"}) },
           messages |-> { <<>>,
                          <<Message("warn", "Disk space low, act now"),
                            Message("error", "License expired")>> },
           cluster |-> {HealthyCluster, NoClusterMaster},
           shcluster |-> {ShclusterAnswer("0", "1", "1")} ])

InitExport == InitWith({HEALTHCHECKS, DisableKeys({"messages_caution"})})

NextExport ==
    \/ PollSequence(ExportResponses)
    \/ \E chosen \in BOOLEAN : actionSaveReport_triggered(chosen)

SpecExport == InitExport /\ [][NextExport]_vars

Saved == saved # <<>>

\* the positions of the commas of a line
Commas(line) == { k \in 1..Len(line) : SubSeq(line, k, k) = "," }

\* the n-th comma-separated field of a line
FieldOf(line, n) ==
    LET commas == Commas(line)
        ends == commas \cup {0, Len(line) + 1}
        Nth(m) == CHOOSE k \in ends : Cardinality({j \in ends : j < k}) = m
    IN  SubSeq(line, Nth(n - 1) + 1, Nth(n) - 1)

\* written is string with each comma turned into a semicolon and nothing else changed
CommasToSemicolons(string, written) ==
    /\ Len(written) = Len(string)
    /\ \A k \in 1..Len(string) :
          SubSeq(written, k, k) =
              IF SubSeq(string, k, k) = "," THEN ";" ELSE SubSeq(string, k, k)

\* C12: the file written by Save Report holds the header Category,Name,Health,Value
\* followed by one line per report row, in report order; each of these lines has
\* four comma-separated fields: the row's category, name and health unchanged and
\* the row's value with every comma replaced by a semicolon.
C12_ExportKeepsRowsAndColumns ==
    Saved =>
        /\ saved[3] = "Category,Name,Health,Value"
        /\ Len(saved) = 3 + Len(splunkd.report)
        /\ \A i \in DOMAIN splunkd.report :
              LET line == saved[3 + i]
                  row == splunkd.report[i]
              IN  /\ Cardinality(Commas(line)) = 3
                  /\ FieldOf(line, 1) = row.category
                  /\ FieldOf(line, 2) = row.name
                  /\ FieldOf(line, 3) = row.health
                  /\ CommasToSemicolons(Text(row.value), FieldOf(line, 4))

\* a saved report with a value that holds commas of a title and of the joining
C12_Witness ==
    /\ Saved
    /\ HasRow("Server", "Messages")
    /\ Text(RowOf("Server", "Messages").value) = "Disk space low, act now, License expired"
    /\ \E i \in DOMAIN saved : saved[i] = "Server,Messages,Caution,Disk space low; act now; License expired"
    /\ Len(splunkd.report) > 40

(***************************************************************************)
(* A discovery run over every list of up to MaxInstances instances, each    *)
(* answering or failing in one of the ways of Outcomes, with the Stop       *)
(* button and the closing of the window at any moment.                      *)
(***************************************************************************)
MaxInstances == 3

Addresses == <<"10.0.0.1", "10.0.0.2", "10.0.0.3", "10.0.0.4">>

\* KeyError: get_services_cluster on a generation answer without its keys;
\* ZeroDivisionError: get_services_server_status on a host without swap;
\* IndexError: report_builder on a version without a dot
Outcomes ==
    { [phase |-> "none", exc |-> NoException],
      [phase |-> "connect", exc |-> "AuthenticationError"],
      [phase |-> "connect", exc |-> "socket.error"],
      [phase |-> "poll", exc |-> "socket.error"],
      [phase |-> "poll", exc |-> "KeyError"],
      [phase |-> "poll", exc |-> "ZeroDivisionError"],
      [phase |-> "report", exc |-> "IndexError"] }

RECURSIVE InstanceLists(_)
InstanceLists(n) ==
    IF n = 0 THEN {<<>>}
    ELSE LET shorter == InstanceLists(n - 1) IN
         shorter \cup
         { Append(list, [address |-> Addresses[Len(list) + 1], port |-> "8089",
                         phase |-> outcome.phase, exc |-> outcome.exc]) :
             list \in shorter, outcome \in Outcomes }

\* the window after buttonCsvBrowse_clicked loaded a CSV file
InitDiscovery ==
    /\ splunkd = SplunkdDefaults
    /\ healthchecks = HEALTHCHECKS
    /\ main = MainConnected
    /\ pc = "poll_service_info"
    /\ raised = NoException
    /\ saved = <<>>
    /\ splunkd_polls = <<>>
    /\ drawing = NoDrawing
    /\ layer = NoLayer
    /\ instances \in InstanceLists(MaxInstances)
    /\ worker = WorkerCreated
    /\ stop_execution = TRUE
    /\ mutex = "free"
    /\ ui = UiIdle
    /\ unguarded = {}

NextDiscovery ==
    \/ buttonToggle_clicked
    \/ buttonToggle_write
    \/ buttonToggle_unlock
    \/ cleanup
    \/ poll_top
    \/ poll_connect
    \/ poll_instance
    \/ poll_report
    \/ threadWorker_updateprogress
    \/ threadWorker_complete

SpecDiscovery == InitDiscovery /\ [][NextDiscovery]_vars

\* the thread left poll: by the completion signal, by the cancel event or by an
\* exception that nothing in poll catches
Ended == worker.pc \in {"finished", "cancelled", "died"}

Fails(instance) == instance.phase # "none"

IsFailedStatus(text) == Len(text) >= 7 /\ SubSeq(text, 1, 7) = "Failed:"

UpTo(n) == [k \in 1..n |-> k]

\* C13: whatever exception an instance raises at connect, in its poll sequence or
\* in report building, its row gets a 'Failed: ...' status and the loop goes on:
\* the thread never leaves the loop because of one instance
C13_FailureIsRecordedAndLoopGoesOn ==
    /\ worker.pc # "died"
    /\ \A k \in DOMAIN worker.instances :
          (k < worker.i /\ Fails(worker.instances[k]))
             => IsFailedStatus(worker.status[k])

\* C14: a run over N instances that is not cancelled has emitted, when the thread
\* has ended, one completion map with exactly the instances that did not fail,
\* and the progress events 1..N once each in order
C14_CompletionMapAndProgress ==
    (Ended /\ ~stop_execution)
       => /\ worker.complete =
                << { Key(worker.instances[k]) :
                       k \in { j \in DOMAIN worker.instances :
                                 ~Fails(worker.instances[j]) } } >>
          /\ worker.progress = UpTo(Len(worker.instances))

\* C15: when the flag was set while instance k was in flight and k is not the
\* last one, the thread ends with instance k polled to its end (Complete or
\* Failed), no later instance started, the cancel event 0 emitted and no
\* completion signal
C15_CancelAtInstanceBoundary ==
    (Ended /\ ui.stop_at > 0 /\ ui.stop_at < Len(worker.instances))
       => /\ worker.progress = Append(UpTo(ui.stop_at), 0)
          /\ worker.complete = <<>>
          /\ worker.status[ui.stop_at] = "Complete"
                \/ IsFailedStatus(worker.status[ui.stop_at])

\* C16: no thread reads or writes stop_execution without holding the mutex
C16_FlagAccessedUnderMutex == unguarded = {}

\* C27: once cleanup has reset the window, no event of the earlier run that is
\* handled afterwards changes the reset state or raises: splunkd_polls stays
\* None, Topology and Save Report stay disabled, and no slot raises
C27_LateSignalsLeaveTheResetState ==
    ui.closed =>
        /\ splunkd_polls = <<>>
        /\ ~ui.topology_enabled
        /\ ~ui.savereport_enabled
        /\ ui.raised = NoException

(***************************************************************************)
(* Runs over CSV files in which a line may appear more than once:           *)
(* buttonCsvBrowse_clicked appends every line, equal or not. Equal lines    *)
(* name the same server, which answers each time in the same way.           *)
(***************************************************************************)
MaxEntries == 3

CsvLines ==
    { [address |-> "10.0.0.1", port |-> "8089", phase |-> "none", exc |-> NoException],
      [address |-> "10.0.0.2", port |-> "8089",
       phase |-> "connect", exc |-> "AuthenticationError"] }

CsvFiles == UNION { [1..n -> CsvLines] : n \in 1..MaxEntries }

InitDuplicates ==
    /\ splunkd = SplunkdDefaults
    /\ healthchecks = HEALTHCHECKS
    /\ main = MainConnected
    /\ pc = "poll_service_info"
    /\ raised = NoException
    /\ saved = <<>>
    /\ splunkd_polls = <<>>
    /\ drawing = NoDrawing
    /\ layer = NoLayer
    /\ instances \in CsvFiles
    /\ worker = WorkerCreated
    /\ stop_execution = TRUE
    /\ mutex = "free"
    /\ ui = UiIdle
    /\ unguarded = {}

SpecDuplicates == InitDuplicates /\ [][NextDiscovery]_vars

\* C29: while the i-th entry of the list is processed, the progress event emitted
\* for it is i, and the status events went to the rows of the entries processed
\* so far: every earlier row has left 'Pending', every later row is still 'Pending'
C29_EventsAddressTheCurrentEntry ==
    worker.pc \in {"connect", "poll", "report"} =>
        /\ worker.progress[Len(worker.progress)] = worker.i
        /\ \A row \in DOMAIN worker.status :
              /\ row < worker.i => worker.status[row] # "Pending"
              /\ row > worker.i => worker.status[row] = "Pending"

(***************************************************************************)
(* Topology builds over the maps of polled instances of a small deployment: *)
(* a search head, a heavy forwarder, an indexer and a cluster master, each   *)
(* polled or not, that refer to the indexers idx1 and idx2 by address or by  *)
(* name, with a reverse DNS that answers or fails for each address.          *)
(***************************************************************************)
MaxPeers == 2

\* a polled Splunkd as far as the topology reads it, with the values that the
\* poll sequence leaves when the server reports nothing
Polled(server_name, primary_role) ==
    [ server_name |-> server_name, primary_role |-> primary_role,
      http_server |-> PyTrue,
      distributedsearch_peers |-> <<>>, forward_servers |-> <<>>,
      cluster_peers |-> <<>>, deployment_clients |-> <<>>,
      shcluster_deployer |-> "(none)", license_master |-> "(self)" ]

\* the indexer idx1 by address, with and without port, and by name
ReferencesToIdx1 == {"10.0.0.1:8089", "10.0.0.1", "IDX1.Example.com:8089", "idx1"}

\* the answers of socket.gethostbyaddr: for each address its name or an error
Resolvers ==
    [ {"10.0.0.1"} -> {"idx1.example.com", HostNotFound} ]

\* the lists of up to n references to idx1, each reference at most once
RECURSIVE ReferenceLists(_)
ReferenceLists(n) ==
    IF n = 0 THEN {<<>>}
    ELSE LET shorter == ReferenceLists(n - 1) IN
         shorter \cup
         UNION { { Append(list, reference) :
                     reference \in ReferencesToIdx1 \ { list[k] : k \in DOMAIN list } } :
                 list \in shorter }

\* the license master as get_services_licenser leaves it: itself, or '' when the
\* request for master_uri failed
LicenseMasters == {"(self)", ""}

SearchHeadPolls ==
    { <<>> } \cup
    { << [Polled("SH1.example.com", "Search Head (Standalone)") EXCEPT
             !.distributedsearch_peers = [k \in DOMAIN list |-> [peerName |-> list[k]]],
             !.license_master = license] >> :
        list \in ReferenceLists(MaxPeers), license \in LicenseMasters }

ForwarderPolls ==
    { <<>> } \cup
    { << [Polled("hf1", "Heavy Forwarder") EXCEPT
             !.forward_servers = [k \in DOMAIN list |-> [title |-> list[k]]]] >> :
        list \in { <<"idx1.example.com:9997">>, <<"10.0.0.1:9997">> } }

IndexerPolls ==
    { <<>>,
      << Polled("IDX1.example.com", "Indexer (Cluster Slave)") >>,
      << [Polled("IDX1.example.com", "Indexer (Cluster Slave)") EXCEPT
             !.license_master = "lm1.example.com:8089"] >>,
      << [Polled("IDX1.example.com", "Indexer (Standalone)") EXCEPT
             !.cluster_peers = <<[location |-> "10.0.0.2:8089"]>>] >> }

ClusterMasterPolls ==
    { <<>>,
      << [Polled("cm1", "Cluster Master") EXCEPT
             !.cluster_peers = <<[location |-> "10.0.0.1:8089"]>>] >> }

TopologyPolls ==
    { sh \o hf \o idx \o cm :
        sh \in SearchHeadPolls, hf \in ForwarderPolls,
        idx \in IndexerPolls, cm \in ClusterMasterPolls }

TopologyConfigs == { TOPOLOGY, [TOPOLOGY EXCEPT !.adjdraw_license = FALSE] }

\* the window after threadWorker_complete stored the map of a finished run
InitTopology ==
    /\ splunkd = SplunkdDefaults
    /\ healthchecks = HEALTHCHECKS
    /\ main = MainConnected
    /\ pc = "poll_service_info"
    /\ raised = NoException
    /\ saved = <<>>
    /\ instances = <<>>
    /\ worker = WorkerCreated
    /\ stop_execution = TRUE
    /\ mutex = "free"
    /\ ui = UiIdle
    /\ unguarded = {}
    /\ splunkd_polls \in TopologyPolls
    /\ drawing = NoDrawing
    /\ layer = NoLayer

NextTopology ==
    \E topology \in TopologyConfigs, gethostbyaddr \in Resolvers :
        buttonTopology_clicked(topology, gethostbyaddr)

SpecTopology == InitTopology /\ [][NextTopology]_vars

\* the nodes of the graph that stand for instances
InstanceNodes == drawing.Graph.nodes \ (Corners \cup {"webuser"})

Clicked == drawing.pc # "none"

\* C17: a build that ends with fewer than 2 nodes reports 'not enough nodes' and
\* draws nothing
C17_FewerThanTwoNodesIsReported ==
    (Clicked /\ Cardinality(InstanceNodes) < 2)
       => (drawing.pc = "warning" /\ drawing.message = NotEnoughNodes)

\* the nodes of the graph that stand for the indexer idx1 (10.0.0.1)
Idx1Nodes == drawing.Graph.nodes \cap {"idx1", "10.0.0.1"}

\* C18: an instance that is referenced by address and by name, or polled and
\* referenced, is one node of the drawn graph, whatever the order of the
\* references and whatever the reverse DNS answers
C18_OneNodePerInstance ==
    drawing.pc = "drawn" => Cardinality(Idx1Nodes) <= 1

\* the references of the polled instances that a rule scans without an exception
HasPeers(snapshot) ==
    snapshot.distributedsearch_peers # <<>> \/ snapshot.forward_servers # <<>>

\* C19: a scan that throws for one rule and one instance is skipped for that pair
\* only: the topology is drawn all the same, and the instances whose peers or
\* receivers were scanned have their edges in it
C19_ThrowingScanIsSkipped ==
    Clicked =>
       /\ drawing.pc = "drawn"
       /\ \A k \in DOMAIN splunkd_polls :
             HasPeers(splunkd_polls[k])
                => \E edge \in drawing.Graph.edges : clean_name(splunkd_polls[k]) \in edge

\* the polled search heads whose web server is enabled, by the names of their nodes
WebSearchHeads ==
    { clean_name(splunkd_polls[k]) :
        k \in { j \in DOMAIN splunkd_polls :
                  /\ RoleKey(splunkd_polls[j].primary_role) = "sh"
                  /\ splunkd_polls[j].http_server = PyTrue } }

\* the edges of the web rule: those that end at the user node
WebEdges == { edge \in drawing.Graph.edges : edge \cap {"webuser", UserBucket} # {} }

\* C26: with the web adjacency and the user node enabled, the finished graph has
\* an edge between 'webuser' and every polled search head whose web server is
\* enabled, and no other web edge
C26_WebEdgesToSearchHeads ==
    (/\ drawing.pc = "drawn"
     /\ drawing.topology.adjdraw_web
     /\ drawing.topology.nodedraw_user)
        => WebEdges = { {"webuser", sh} : sh \in WebSearchHeads }

\* C28: no adjacency rule adds a node to the bucket it is iterating: no build ends
\* with the iteration over a bucket finding that the bucket changed size
C28_NoRuleAddsToItsOwnBucket ==
    Clicked => drawing.exc # "RuntimeError"

(***************************************************************************)
(* The topology with one role switched off: each configuration has one of   *)
(* the nodedraw_ keys false, over finished runs in which the instances of   *)
(* every kind refer to others, polled or not.                               *)
(***************************************************************************)
NodeDrawKeys ==
    { "nodedraw_user", "nodedraw_searchhead", "nodedraw_indexer",
      "nodedraw_heavyforwarder", "nodedraw_universalforwarder", "nodedraw_mgmtconsole",
      "nodedraw_shcdeployer", "nodedraw_clustermaster", "nodedraw_deploymentserver",
      "nodedraw_licensemaster", "nodedraw_inputs", "nodedraw_others" }

BucketConfigs == { [TOPOLOGY EXCEPT ![key] = FALSE] : key \in NodeDrawKeys }

BucketPolls ==
    LET sh == [Polled("sh1.example.com", "Search Head (Standalone)") EXCEPT
                   !.distributedsearch_peers = <<[peerName |-> "idx1"]>>]
        shc == [sh EXCEPT !.primary_role = "Search Head (SHC Member)",
                          !.shcluster_deployer = "shcd1.example.com:8089"]
        slave == [sh EXCEPT !.license_master = "lm1.example.com:8089"]
        idx == Polled("idx1.example.com", "Indexer (Cluster Slave)")
        hf == [Polled("hf1", "Heavy Forwarder") EXCEPT
                   !.forward_servers = <<[title |-> "idx1.example.com:9997"]>>]
        uf == [Polled("uf1", "Universal Forwarder") EXCEPT
                   !.forward_servers = <<[title |-> "10.0.0.1:9997"]>>]
        cm == [Polled("cm1", "Cluster Master") EXCEPT
                   !.cluster_peers = <<[location |-> "10.0.0.1:8089"]>>]
        ds == [Polled("ds1", "Deployment Server") EXCEPT
                   !.deployment_clients = <<[dns |-> "uf1.example.com", mgmt |-> "8089"]>>]
        mc == [Polled("mc1", "Management Console") EXCEPT
                   !.distributedsearch_peers = <<[peerName |-> "idx1"]>>]
        lm == Polled("lm1.example.com", "License Master")
    IN  { <<sh>>, <<sh, idx>>, <<shc>>, <<slave>>, <<slave, lm>>, <<hf, idx>>, <<uf>>,
          <<cm, idx>>, <<ds, uf>>, <<mc, idx>>, <<idx, lm>> }

InitBuckets ==
    /\ splunkd = SplunkdDefaults
    /\ healthchecks = HEALTHCHECKS
    /\ main = MainConnected
    /\ pc = "poll_service_info"
    /\ raised = NoException
    /\ saved = <<>>
    /\ instances = <<>>
    /\ worker = WorkerCreated
    /\ stop_execution = TRUE
    /\ mutex = "free"
    /\ ui = UiIdle
    /\ unguarded = {}
    /\ splunkd_polls \in BucketPolls
    /\ drawing = NoDrawing
    /\ layer = NoLayer

NextBuckets ==
    \E topology \in BucketConfigs, gethostbyaddr \in Resolvers :
        buttonTopology_clicked(topology, gethostbyaddr)

SpecBuckets == InitBuckets /\ [][NextBuckets]_vars

\* the switch of each of the 12 buckets of the nodes dictionary
BucketSwitch == NodeDraw @@ [other |-> "nodedraw_others"]

\* C25: when the nodedraw_ switch of a bucket is false, the build completes and
\* the graph has no node of that bucket, polled or discovered
C25_SwitchedOffBucketHasNoNode ==
    Clicked =>
        \A role \in NodeRoles :
            ~drawing.topology[BucketSwitch[role]] =>
                /\ drawing.exc = NoException
                /\ drawing.Graph.nodes \cap drawing.nodes[role] = {}

(***************************************************************************)
(* layer_positions on its own: layers of up to MaxLayerNodes nodes, for each *)
(* alignment of the configuration and for spacings from a negative one to    *)
(* one wider than the canvas.                                                *)
(***************************************************************************)
MaxLayerNodes == 9

\* the default of the parameter bufferwidth, which no call overrides
DefaultBufferWidth == 10

StaticWidths == {-10, 0, 1, 10, 40, 100}

LayerHeights == {0, 60, 100}

LayerNodes(n) == [k \in 1..n |-> "idx" \o ToString(k)]

InitLayer ==
    /\ splunkd = SplunkdDefaults
    /\ healthchecks = HEALTHCHECKS
    /\ main = MainConnected
    /\ pc = "poll_service_info"
    /\ raised = NoException
    /\ saved = <<>>
    /\ instances = <<>>
    /\ worker = WorkerCreated
    /\ stop_execution = TRUE
    /\ mutex = "free"
    /\ ui = UiIdle
    /\ unguarded = {}
    /\ splunkd_polls = <<>>
    /\ drawing = NoDrawing
    /\ \E n \in 0..MaxLayerNodes, layerheight \in LayerHeights,
          xalignment \in {"left", "right", "center"}, static_width \in StaticWidths :
          layer = [ pc |-> "called", layernodes |-> LayerNodes(n),
                    layerheight |-> layerheight, bufferwidth |-> DefaultBufferWidth,
                    xalignment |-> xalignment, static_width |-> static_width,
                    positions |-> <<>> ]

NextLayer == layer_positions_called

SpecLayer == InitLayer /\ [][NextLayer]_vars

LayerReturned == layer.pc = "returned" /\ layer.layernodes # <<>>

AvailableWidth == 100 - 2 * layer.bufferwidth

TooWide == layer.static_width * Len(layer.layernodes) > AvailableWidth

\* equal gaps of AvailableWidth / N between neighbours, and the same margin on
\* both sides (all coordinates of a layer have the denominator 2 * N)
EvenlyJustified ==
    LET positions == layer.positions
        n == Len(positions)
    IN  /\ \A k \in 1..(n - 1) :
              positions[k + 1].x.num - positions[k].x.num = 2 * AvailableWidth
        /\ positions[1].x.num - layer.bufferwidth * positions[1].x.den
              = (100 - layer.bufferwidth) * positions[n].x.den - positions[n].x.num

\* every node one position, the x-coordinates pairwise distinct, all at the
\* height of the layer and all within [bufferwidth, 100 - bufferwidth]
WellPlaced ==
    LET positions == layer.positions IN
    /\ Len(positions) = Len(layer.layernodes)
    /\ \A k \in DOMAIN positions :
          /\ positions[k].node = layer.layernodes[k]
          /\ positions[k].y = layer.layerheight
          /\ positions[k].x.num >= layer.bufferwidth * positions[k].x.den
          /\ positions[k].x.num <= (100 - layer.bufferwidth) * positions[k].x.den
          /\ \A j \in DOMAIN positions : j # k => positions[j].x # positions[k].x

\* C20: for every alignment and every layer of N >= 1 nodes, a layer too wide
\* for its static spacing is evenly justified and centered, and in every case
\* the nodes have distinct x-coordinates at the layer's height within the buffers
C20_LayerPositionsWellPlaced ==
    LayerReturned => ((TooWide => EvenlyJustified) /\ WellPlaced)

\* C20 amended: the same for a static_width of at least 1
C20_LayerPositionsWellPlacedForPositiveWidth ==
    (LayerReturned /\ layer.static_width >= 1)
       => ((TooWide => EvenlyJustified) /\ WellPlaced)

\* a left-aligned layer of several nodes that fell back to the justified placement
C20_Witness ==
    /\ LayerReturned
    /\ layer.static_width >= 1
    /\ layer.xalignment = "left"
    /\ Len(layer.layernodes) >= 2
    /\ TooWide
    /\ EvenlyJustified

\* the polled messages whose severity, compared without regard to case, is not info
NotInfo(messages) == SelectSeq(messages, LAMBDA m : lower(m.severity) # "info")

\* C30: with the messages check enabled the Messages row is Caution exactly when
\* some polled message has a severity other than info, its value then lists the
\* titles of those messages; otherwise the row is OK with the value 'None'
C30_MessagesRowFlagsNonInfo ==
    (Returned /\ Enabled(healthchecks, "messages_caution")) =>
        LET flagged == NotInfo(splunkd.messages)
            titles == [i \in DOMAIN flagged |-> flagged[i].title]
        IN  /\ HasRow("Server", "Messages")
            /\ RowOf("Server", "Messages").health =
                  (IF flagged # <<>> THEN "Caution" ELSE "OK")
            /\ RowOf("Server", "Messages").value =
                  (IF flagged # <<>> THEN Join(titles) ELSE <<"None">>)

\* C23: no population step lets an exception out, whatever the server answers: the
\* poll sequence never ends in a step that raised
C23_PopulationStepsNeverRaise == pc # "aborted"

(***************************************************************************)
(* One instance polled as DiscoveryReportWorker.poll does: after            *)
(* get_services_search the worker goes on to get_services_server_status,    *)
(* get_services_server_health_details is not among its calls. The report    *)
(* is built once all steps have returned.                                   *)
(***************************************************************************)
worker_skips_health_details ==
    /\ pc = "get_services_server_health_details"
    /\ pc' = "get_services_server_status"
    /\ UNCHANGED <<splunkd, raised>>
    /\ UNCHANGED others

WorkerPollSequence(D) ==
    \/ /\ pc = "poll_service_info"
       /\ \E info \in D.info : poll_service_info(info)
    \/ /\ pc = "poll_service_settings"
       /\ \E settings \in D.settings : poll_service_settings(settings)
    \/ /\ pc = "poll_service_messages"
       /\ \E entries \in D.messages : poll_service_messages(entries)
    \/ /\ pc = "get_service_confs"
       /\ \E confs \in D.confs : get_service_confs(confs)
    \/ /\ pc = "get_services_admin_inputstatus"
       /\ \E status \in D.inputstatus : get_services_admin_inputstatus(status)
    \/ /\ pc = "poll_service_apps"
       /\ \E apps \in D.apps : poll_service_apps(apps)
    \/ /\ pc = "get_services_data"
       /\ \E data \in D.data : get_services_data(data)
    \/ /\ pc = "get_services_kvstore"
       /\ \E kvstore \in D.kvstore : get_services_kvstore(kvstore)
    \/ /\ pc = "get_services_cluster"
       /\ \E cluster \in D.cluster : get_services_cluster(cluster)
    \/ /\ pc = "get_services_shcluster"
       /\ \E shcluster \in D.shcluster : get_services_shcluster(shcluster)
    \/ /\ pc = "get_services_deployment"
       /\ \E clients \in D.deployment : get_services_deployment(clients)
    \/ /\ pc = "get_services_licenser"
       /\ \E licenser \in D.licenser : get_services_licenser(licenser)
    \/ /\ pc = "get_services_search"
       /\ \E peers \in D.search : get_services_search(peers)
    \/ worker_skips_health_details
    \/ /\ pc = "get_services_server_status"
       /\ \E status \in D.status : get_services_server_status(status)
    \/ /\ pc = "report_builder"
       /\ \E now \in D.now : report_builder(now)

\* the servers the worker polls: any role, messages or none, any health answer
WorkerResponses ==
    With([ info |-> { NominalInfo({"cluster_master", "shc_member", "search_head"}),
                      NominalInfo({"universal_forwarder"}),
                      NominalInfo({"indexer"}),
                      [NominalInfo({"indexer"}) EXCEPT !.version = <<"8">>] },
           settings |-> { [enableSplunkWebSSL |-> ssl, startwebserver |-> "1"] :
                            ssl \in Flags },
           messages |-> { <<>>, <<Message("info", "Restart completed")>>,
                          <<Message("error", "License expired")>> },
           health |-> { [has_health |-> TRUE, health |-> "green",
                         features |-> <<"File Monitor Input = green">>],
                        [has_health |-> TRUE, health |-> "red",
                         features |-> <<"File Monitor Input = red">>],
                        [has_health |-> FALSE, health |-> "", features |-> <<>>] } ])

SpecWorkerPoll == InitWith({HEALTHCHECKS}) /\ [][WorkerPollSequence(WorkerResponses)]_vars

\* C22: the report the discovery worker builds for an instance is the report the
\* interactive poll builds for it: it is the report of the worker's snapshot
\* completed by the server's answer to the health details request, for one of the
\* answers the server can give
C22_WorkerReportIsTheInteractiveReport ==
    Returned =>
        \E details \in WorkerResponses.health, now \in WorkerResponses.now :
            splunkd.report =
                BuildReport(HealthDetails(splunkd, details), healthchecks, now).rows

(***************************************************************************)
(* Polls repeated on one interactive connection: the Poll button calls      *)
(* MainWindow.poll again on the same Splunkd object, which keeps every      *)
(* attribute that the steps of the new poll do not assign.                  *)
(***************************************************************************)
buttonPoll_clicked ==
    /\ main.pc = "ready"
    /\ main.poll_enabled
    /\ pc = "done"
    /\ raised = NoException
    /\ pc' = "poll"
    /\ UNCHANGED <<splunkd, raised>>
    /\ UNCHANGED others

\* MainWindow.disconnect: del self.splunkd and the widgets of the connection
disconnect(window) ==
    [window EXCEPT !.session = FALSE, !.fields_enabled = TRUE,
                   !.tabs_enabled = FALSE, !.poll_enabled = FALSE]

\* the first try of MainWindow.poll, self.splunkd.service.settings: every
\* exception is caught, and poll disconnects and returns
poll_settings_check(outcome) ==
    /\ main.pc # "exited"
    /\ pc = "poll"
    /\ IF outcome = NoException
       THEN pc' = "poll_service_info" /\ UNCHANGED main
       ELSE pc' = "idle" /\ main' = disconnect([main EXCEPT !.error = outcome])
    /\ UNCHANGED <<splunkd, raised>>
    /\ UNCHANGED <<healthchecks, saved, discovery, topo>>

\* MainWindow.poll builds the report only after the last population step
MainWindow_poll(D) ==
    /\ PollSequence(D)
    /\ pc = "report_builder" \/ pc' # "done"

\* a server whose introspection and cluster endpoints answer on one poll and
\* hold no data on another
RepollResponses ==
    With([ info |-> { NominalInfo({"indexer", "cluster_master"}) },
           cluster |-> { HealthyCluster, NoClusterMaster },
           status |-> { NominalStatus,
                        [NominalStatus EXCEPT !.partitions = <<>>],
                        [NominalStatus EXCEPT
                            !.hostwide = [NominalHostwide EXCEPT !.has = {}]] } ])

NextRepoll ==
    \/ MainWindow_poll(RepollResponses)
    \/ buttonPoll_clicked
    \/ \E outcome \in {NoException, "socket.error"} : poll_settings_check(outcome)

SpecRepoll == InitWith({HEALTHCHECKS}) /\ [][NextRepoll]_vars

\* C24: after any sequence of polls the snapshot and the report reflect the
\* latest poll only: when the hostwide answer of the latest poll held no data,
\* cpu_usage is its initial 0 and not the value of an earlier poll, and the
\* report is the one that report_builder builds from the snapshot
C24_SnapshotReflectsLatestPoll ==
    Returned =>
        /\ "cpu_idle_pct" \notin splunkd._services_server_status_resourceusage_hostwide.has
              => splunkd.cpu_usage = SplunkdDefaults.cpu_usage
        /\ \E now \in RepollResponses.now :
              splunkd.report = BuildReport(splunkd, healthchecks, now).rows

(***************************************************************************)
(* The interactive connection: Connect / Disconnect, the poll that connect  *)
(* runs after the login, the Poll button, and the connection errors that    *)
(* Splunkd(...) and the requests of poll raise.                             *)
(***************************************************************************)
PopulationSteps ==
    { "poll_service_info", "poll_service_settings", "poll_service_messages",
      "get_service_confs", "get_services_admin_inputstatus", "poll_service_apps",
      "get_services_data", "get_services_kvstore", "get_services_cluster",
      "get_services_shcluster", "get_services_deployment", "get_services_licenser",
      "get_services_search", "get_services_server_health_details",
      "get_services_server_status" }

\* MainWindow.buttonToggle_clicked: disconnect when self.splunkd exists, connect
\* otherwise. connect up to its call of poll: the exceptions of Splunkd(...) are
\* caught and shown; after a login the widgets are toggled and poll is called
MainWindow_buttonToggle_clicked(outcome) ==
    /\ main.pc = "ready"
    /\ pc \in {"idle", "done"}
    /\ UNCHANGED <<healthchecks, saved, discovery, topo>>
    /\ IF main.session
       THEN /\ main' = disconnect(main)
            /\ pc' = "idle"
            /\ UNCHANGED <<splunkd, raised>>
       ELSE IF outcome # NoException
       THEN /\ main' = [main EXCEPT !.error = outcome]
            /\ UNCHANGED <<splunkd, pc, raised>>
       ELSE /\ main' = [MainConnected EXCEPT !.pc = "connect"]
            /\ splunkd' = SplunkdDefaults
            /\ pc' = "poll"
            /\ raised' = NoException

\* a request of a population step fails: socket.error is caught by poll, which
\* disconnects and returns; AuthenticationError has no handler there and leaves
\* poll, and connect when it is the caller, for sys.excepthook
poll_step_raises(exc) ==
    /\ main.pc # "exited"
    /\ pc \in PopulationSteps
    /\ UNCHANGED splunkd
    /\ UNCHANGED <<healthchecks, saved, discovery, topo>>
    /\ IF exc = "socket.error"
       THEN /\ main' = disconnect([main EXCEPT !.error = exc])
            /\ pc' = "idle"
            /\ raised' = NoException
       ELSE /\ main' = [main EXCEPT !.error = exc, !.pc = "exited"]
            /\ pc' = "aborted"
            /\ raised' = exc

\* connect after its call of poll has returned: self.splunkd.server_name and
\* self.splunkd.roles are read, which raises AttributeError when poll has
\* disconnected
connect_return ==
    /\ main.pc = "connect"
    /\ pc \in {"idle", "done"}
    /\ UNCHANGED <<splunkd, pc>>
    /\ UNCHANGED <<healthchecks, saved, discovery, topo>>
    /\ IF main.session
       THEN main' = [main EXCEPT !.pc = "ready"] /\ UNCHANGED raised
       ELSE main' = [main EXCEPT !.pc = "exited"] /\ raised' = "AttributeError"

ConnectionErrors == {"AuthenticationError", "gaierror", "socket.error"}

InitConnect ==
    /\ splunkd = SplunkdDefaults
    /\ healthchecks = HEALTHCHECKS
    /\ main = MainDisconnected
    /\ pc = "idle"
    /\ raised = NoException
    /\ saved = <<>>
    /\ DiscoveryClosed

NextConnect ==
    \/ \E outcome \in ConnectionErrors \cup {NoException} :
          MainWindow_buttonToggle_clicked(outcome)
    \/ \E outcome \in {NoException, "AuthenticationError", "socket.error"} :
          poll_settings_check(outcome)
    \/ /\ main.pc # "exited"
       /\ MainWindow_poll(With([ info |-> { NominalInfo({"indexer"}),
                                            NominalInfo({"search_head"}) } ]))
    \/ \E exc \in {"AuthenticationError", "socket.error"} : poll_step_raises(exc)
    \/ connect_return
    \/ buttonPoll_clicked

SpecConnect == InitConnect /\ [][NextConnect]_vars

\* C21: a connection error raised by connect or by poll, the poll that connect
\* runs included, leaves the tool running and disconnected: self.splunkd does not
\* exist, the poll button and the tabs are disabled, the address and credential
\* fields are enabled, and nothing reads the session any more
C21_ConnectionErrorLeavesDisconnected ==
    main.error # NoException =>
        /\ main.pc # "exited"
        /\ raised = NoException
        /\ ~main.session
        /\ ~main.poll_enabled
        /\ ~main.tabs_enabled
        /\ main.fields_enabled

(***************************************************************************)
(* The role classifier on its own: every set of role tags and every mode.   *)
(***************************************************************************)
RoleInfos ==
    { InfoOf(NominalVersion, 1000, 16, "32768", roles, "enterprise", mode) :
        roles \in SUBSET (RoleTags \cup {"kv_store"}), mode \in Modes }
    \cup
    { Without(InfoOf(NominalVersion, 1000, 16, "32768", {}, "enterprise", mode),
              {"server_roles"}) : mode \in Modes }
    \cup
    { Without(InfoOf(NominalVersion, 1000, 16, "32768", roles, "enterprise", "normal"),
              {"mode"}) : roles \in {{}, {"license_master"}} }

InitRole ==
    /\ splunkd = SplunkdDefaults
    /\ healthchecks = HEALTHCHECKS
    /\ main = MainConnected
    /\ pc = "poll_service_info"
    /\ raised = NoException
    /\ saved = <<>>
    /\ DiscoveryClosed

NextRole ==
    /\ pc = "poll_service_info"
    /\ \E info \in RoleInfos : poll_service_info(info)

SpecRole == InitRole /\ [][NextRole]_vars

RuleResult ==
    [ universal_forwarder |-> "Universal Forwarder",
      management_console |-> "Management Console",
      cluster_slave |-> "Indexer (Cluster Slave)",
      indexer |-> "Indexer (Standalone)",
      shc_deployer |-> "Deployer (SHC)",
      shc_captain |-> "Search Head (SHC Captain)",
      shc_member |-> "Search Head (SHC Member)",
      cluster_master |-> "Cluster Master",
      search_head |-> "Search Head (Standalone)",
      deployment_server |-> "Deployment Server",
      heavyweight_forwarder |-> "Heavy Forwarder",
      license_master |-> "License Master" ]

Matching(roles) == { i \in DOMAIN RuleOrder : RuleOrder[i] \in roles }

FirstMatch(roles) == CHOOSE i \in Matching(roles) : \A j \in Matching(roles) : i <= j

InfoPolled == pc # "poll_service_info"

\* C1: after poll_service_info the primary role is the result of the first rule of
\* the ordered list whose tag is in the role set; with no such rule it is Forwarder
\* when mode is 'dedicated forwarder' and Heavy Forwarder otherwise; one primary
\* role is assigned for every input.
C1_FirstMatchWins ==
    InfoPolled =>
        /\ splunkd.primary_role \in PrimaryRoles
        /\ IF Matching(splunkd.roles) # {}
           THEN splunkd.primary_role = RuleResult[RuleOrder[FirstMatch(splunkd.roles)]]
           ELSE splunkd.primary_role =
                  IF splunkd.mode = "dedicated forwarder" THEN "Forwarder"
                  ELSE "Heavy Forwarder"

\* a role set in which a later rule's tag accompanies an earlier rule's tag
C1_Witness ==
    /\ InfoPolled
    /\ Cardinality(Matching(splunkd.roles)) >= 2
    /\ "shc_member" \in splunkd.roles
    /\ "search_head" \in splunkd.roles
    /\ splunkd.primary_role = "Search Head (SHC Member)"

\* C2 as stated: roles = {cluster_master, indexer} is classified Cluster Master.
C2_ClusterMasterOverIndexer ==
    (InfoPolled /\ splunkd.roles = {"cluster_master", "indexer"})
        => splunkd.primary_role = "Cluster Master"

\* C2 amended: roles = {cluster_master, indexer} is classified Indexer (Standalone),
\* whatever the mode, the indexer rule being tested before the cluster_master rule.
C2_IndexerOverClusterMaster ==
    (InfoPolled /\ splunkd.roles = {"cluster_master", "indexer"})
        => splunkd.primary_role = "Indexer (Standalone)"

C2_Witness ==
    /\ InfoPolled
    /\ splunkd.roles = {"cluster_master", "indexer"}
    /\ splunkd.mode = "dedicated forwarder"
    /\ splunkd.primary_role \in PrimaryRoles

====
